---- MODULE Spec2Model ----
(***************************************************************************)
(* A model of the download-manifest codec of egs-api-rs                    *)
(* (src/src/api/types/download_manifest.rs, src/src/api/utils.rs).         *)
(*                                                                         *)
(* Conventions                                                             *)
(*  - a buffer is a sequence of bytes (0..255); Rust's zero-based cursor   *)
(*    `position` is kept zero-based, so byte i of the code is buf[i+1];    *)
(*  - a Rust String is the sequence of its bytes; the model draws ASCII    *)
(*    text only, where bytes, chars and UTF-16 units coincide;             *)
(*  - an unsigned integer wider than TLC's integers (u32, u64, u128) is    *)
(*    its little-endian byte sequence without trailing zero bytes, so that *)
(*    equal numbers are equal values; <<>> is 0;                           *)
(*  - Option<T> is None or Some(x); a call that can panic returns a record *)
(*    with ok = FALSE, and every caller propagates it (an abort).          *)
(***************************************************************************)
EXTENDS Integers, Sequences, FiniteSets, TLC

Byte == 0..255

None == [tag |-> "None"]
Some(x) == [tag |-> "Some", v |-> x]
IsSome(o) == o.tag = "Some"

\* A panic (slice index out of range, unwrap on Err, arithmetic overflow).
Panic == [ok |-> FALSE]
Ok(x) == [ok |-> TRUE, v |-> x]

\* Larger than every buffer of the model: a length or count at least this
\* large always runs past the end of the buffer.
Huge == 256 * 256

Min(a, b) == IF a < b THEN a ELSE b

\* n zero bytes (none for n <= 0).
Zeros(n) == [i \in 1..n |-> 0]

RECURSIVE Concat(_)
\* The concatenation of a sequence of sequences, by halves.
Concat(ss) ==
    IF Len(ss) = 0 THEN <<>>
    ELSE IF Len(ss) = 1 THEN ss[1]
    ELSE Concat(SubSeq(ss, 1, Len(ss) \div 2))
         \o Concat(SubSeq(ss, (Len(ss) \div 2) + 1, Len(ss)))

RECURSIVE SeqToSet(_)
SeqToSet(s) == IF s = <<>> THEN {} ELSE {Head(s)} \cup SeqToSet(Tail(s))

(***************************************************************************)
(* Numbers as little-endian byte sequences.                                *)
(***************************************************************************)
\* Drop the trailing (most significant) zero bytes.
Norm(b) ==
    LET UpTo(nonzero) ==
            IF nonzero = {} THEN <<>>
            ELSE SubSeq(b, 1, CHOOSE i \in nonzero : \A j \in nonzero : j <= i)
    IN  UpTo({i \in 1..Len(b) : b[i] # 0})

\* The little-endian bytes of a number, padded or cut to w bytes
\* (u32::to_le_bytes for w = 4, u64::to_le_bytes for w = 8).
LeBytes(num, w) ==
    IF Len(num) >= w THEN SubSeq(num, 1, w) ELSE num \o Zeros(w - Len(num))

\* TryFrom to a w-byte unsigned integer succeeds.
FitsIn(num, w) == Len(num) <= w

\* The value of a number as a TLC integer, or Huge when it is 65536 or more.
Small(num) ==
    IF Len(num) = 0 THEN 0
    ELSE IF Len(num) = 1 THEN num[1]
    ELSE IF Len(num) = 2 THEN num[1] + 256 * num[2]
    ELSE Huge

\* The number of a TLC integer below 65536.
NumOf(n) == Norm(<<n % 256, (n \div 256) % 256>>)

(***************************************************************************)
(* Hex and decimal formatting (std::fmt).                                  *)
(***************************************************************************)
\* The ASCII code of "0"; "a" is 97 and "A" is 65.
ChZero == 40 + 8

HexDigit(n, upper) ==
    IF n < 10 THEN ChZero + n
    ELSE (IF upper THEN 65 ELSE 97) + (n - 10)

\* "{:02x}" of one byte.
HexByte(b, upper) == <<HexDigit(b \div 16, upper), HexDigit(b % 16, upper)>>

\* Each byte of s in turn as two hex digits (the fold of write!("{b:02x}")).
HexBytesInOrder(s, upper) ==
    [i \in 1..(2 * Len(s)) |-> HexByte(s[(i + 1) \div 2], upper)[2 - (i % 2)]]

Reverse(s) == [i \in 1..Len(s) |-> s[Len(s) + 1 - i]]

\* The hex digits of a number, most significant first, without leading
\* zeros ("0" for zero): "{:x}" / "{:X}" of an unsigned integer.
HexDigits(num, upper) ==
    LET Trimmed(full) ==
            IF full = <<>> THEN <<ChZero>>
            ELSE IF full[1] = ChZero THEN Tail(full) ELSE full
    IN  Trimmed(HexBytesInOrder(Reverse(Norm(num)), upper))

RECURSIVE PadLeft(_, _, _)
\* Width is a minimum: a longer text is left as it is.
PadLeft(s, w, ch) == IF Len(s) >= w THEN s ELSE PadLeft(<<ch>> \o s, w, ch)

\* "{:08x}" of a u32 given by its four little-endian bytes.
FmtHex08(b4) == PadLeft(HexDigits(b4, FALSE), 8, ChZero)

\* "{:016X}" of a u128.
FmtHex016Upper(num) == PadLeft(HexDigits(num, TRUE), 16, ChZero)

RECURSIVE DecDigits(_)
DecDigits(n) ==
    IF n < 10 THEN <<ChZero + n>>
    ELSE DecDigits(n \div 10) \o <<ChZero + (n % 10)>>

\* "{:02}" of an unsigned integer; the model formats numbers below 65536.
FmtDec02(num) == PadLeft(DecDigits(Small(num)), 2, ChZero)

\* str::to_uppercase on ASCII text.
ToUpper(s) == [i \in 1..Len(s) |->
                 IF s[i] >= 97 /\ s[i] <= 122 THEN s[i] - 32 ELSE s[i]]

\* str::to_lowercase on ASCII text.
ToLower(s) == [i \in 1..Len(s) |->
                 IF s[i] >= 65 /\ s[i] <= 90 THEN s[i] + 32 ELSE s[i]]

IsHexChar(c) ==
    \/ c >= 48 /\ c <= 57
    \/ c >= 97 /\ c <= 102
    \/ c >= 65 /\ c <= 70

HexVal(c) ==
    IF c <= 57 THEN c - 48 ELSE IF c >= 97 THEN c - 87 ELSE c - 55

(***************************************************************************)
(* Library functions the code calls: SHA-1 (crate sha1), zlib (crate       *)
(* flate2).                                                                *)
(***************************************************************************)
RECURSIVE SumOver(_, _, _, _)
\* The sum of w * data[i] for i in lo..hi, where w is 1 (weighted = FALSE)
\* or the number of bytes from i to the end of data (weighted = TRUE). The
\* range is halved so that the depth stays small on long buffers.
SumOver(data, lo, hi, weighted) ==
    IF lo > hi THEN 0
    ELSE IF lo = hi
    THEN (IF weighted THEN Len(data) - lo + 1 ELSE 1) * data[lo]
    ELSE SumOver(data, lo, (lo + hi) \div 2, weighted)
         + SumOver(data, ((lo + hi) \div 2) + 1, hi, weighted)

\* The two running sums of Adler-32 after data, from sums a and b: each byte
\* is added to a, and each new a is added to b, modulo 65521.
AdlerSums(data, a, b) ==
    <<(a + SumOver(data, 1, Len(data), FALSE)) % 65521,
      (b + Len(data) * a + SumOver(data, 1, Len(data), TRUE)) % 65521>>

\* Adler-32 of data as the four big-endian bytes of the zlib trailer.
Adler32(data) ==
    LET Trailer(s) == <<s[2] \div 256, s[2] % 256, s[1] \div 256, s[1] % 256>>
    IN  Trailer(AdlerSums(data, 1, 0))

\* Sha1::digest: a 20-byte digest of the data. SHA-1 itself is replaced by a
\* position-sensitive checksum spread over 20 bytes: it is a function of the
\* bytes, has SHA-1's width, and tells apart the buffers of the model.
Sha1(data) ==
    LET Digest(s) == [j \in 1..20 |-> (s[1] * j + s[2] * (j + 2) + j * j) % 256]
    IN  Digest(AdlerSums(data, Len(data) + 7, 3))

\* ZlibEncoder::new(_, Compression::default()) + write_all + finish: a zlib
\* stream of the data. The stream has zlib's header (0x78 0x9C) and trailer
\* (Adler-32, big-endian); the deflate body is one stored block (flate2
\* emits Huffman-coded blocks, which decode to the same data).
ZlibEncode(data) ==
    LET n == Len(data)
    IN  <<120, 156, 1, n % 256, n \div 256, 255 - (n % 256), 255 - (n \div 256)>>
        \o data \o Adler32(data)

RECURSIVE InflateStored(_, _, _)
\* The deflate blocks of s from zero-based offset p on, with the output so
\* far: the data and the offset after the final block, or an error.
\* Huffman-coded blocks (BTYPE 1, 2) are not decoded: the model's streams
\* carry stored blocks, and BTYPE 3 is an error in every decoder.
InflateStored(s, p, out) ==
    LET Block(final, n) ==
            IF s[p + 4] # 255 - s[p + 2] \/ s[p + 5] # 255 - s[p + 3]
               \/ p + 5 + n > Len(s)
            THEN Panic
            ELSE IF final
            THEN Ok([data |-> out \o SubSeq(s, p + 6, p + 5 + n), pos |-> p + 5 + n])
            ELSE InflateStored(s, p + 5 + n, out \o SubSeq(s, p + 6, p + 5 + n))
    IN  IF p + 1 > Len(s) THEN Panic
        ELSE IF (s[p + 1] \div 2) % 4 # 0 \/ p + 5 > Len(s) THEN Panic
        ELSE Block(s[p + 1] % 2 = 1, s[p + 2] + 256 * s[p + 3])

\* ZlibDecoder::new(s).read_to_end(&mut data): Ok(data) or Err. The header
\* must name deflate with a valid check and no preset dictionary, the blocks
\* must decode, and the trailer must be the Adler-32 of the data; bytes after
\* the trailer are not read.
ZlibDecode(s) ==
    IF Len(s) < 2 THEN Panic
    ELSE IF s[1] % 16 # 8 \/ s[1] \div 16 > 7
            \/ (s[1] * 256 + s[2]) % 31 # 0 \/ (s[2] \div 32) % 2 = 1
    THEN Panic
    ELSE LET Checked(r) ==
                 IF ~r.ok THEN Panic
                 ELSE IF r.v.pos + 4 > Len(s) THEN Panic
                 ELSE IF SubSeq(s, r.v.pos + 1, r.v.pos + 4) # Adler32(r.v.data)
                 THEN Panic
                 ELSE Ok(r.v.data)
         IN  Checked(InflateStored(s, 2, <<>>))

(***************************************************************************)
(* src/api/utils.rs                                                        *)
(***************************************************************************)
\* do_vecs_match
do_vecs_match(a, b) ==
    LET Same(matching) == matching = Len(a) /\ matching = Len(b)
    IN  Same(Cardinality({i \in 1..Min(Len(a), Len(b)) : a[i] = b[i]}))

\* read_le: the four bytes at the cursor (a u32, little-endian) and the
\* cursor after them; a panic when the buffer ends before.
read_le(buffer, position) ==
    IF position + 4 > Len(buffer) THEN Panic
    ELSE [ok |-> TRUE, pos |-> position + 4,
          v |-> SubSeq(buffer, position + 1, position + 4)]

\* read_le_64 with the most significant byte first.
read_be_64(buffer, position) ==
    IF position + 8 > Len(buffer) THEN Panic
    ELSE [ok |-> TRUE, pos |-> position + 8,
          v |-> Reverse(SubSeq(buffer, position + 1, position + 8))]

\* read_le_64 (and the bytes of read_le_64_signed).
read_le_64(buffer, position) ==
    IF position + 8 > Len(buffer) THEN Panic
    ELSE [ok |-> TRUE, pos |-> position + 8,
          v |-> SubSeq(buffer, position + 1, position + 8)]

\* `position += n; buffer[position - n..position]`
read_bytes(buffer, position, n) ==
    IF position + n > Len(buffer) THEN Panic
    ELSE [ok |-> TRUE, pos |-> position + n,
          v |-> SubSeq(buffer, position + 1, position + n)]

\* `buffer[position]; position += 1`
read_u8(buffer, position) ==
    IF position + 1 > Len(buffer) THEN Panic
    ELSE [ok |-> TRUE, pos |-> position + 1, v |-> buffer[position + 1]]

\* std::str::from_utf8 on the model's text, which has characters of one
\* and of two bytes: a byte below 128, or a lead byte C2..DF and one
\* continuation byte 80..BF after it.
ValidUtf8(s) ==
    LET Lead(i) == s[i] >= 194 /\ s[i] <= 223
        Cont(i) == s[i] >= 128 /\ s[i] <= 191
    IN  \A i \in 1..Len(s) :
            \/ s[i] < 128
            \/ Lead(i) /\ i < Len(s) /\ Cont(i + 1)
            \/ Cont(i) /\ i > 1 /\ Lead(i - 1)

\* String::from_utf16_lossy over 16-bit little-endian units (ASCII units).
Utf16Lossy(s) ==
    [i \in 1..(Len(s) \div 2) |->
        IF s[2 * i] = 0 /\ s[2 * i - 1] < 128 THEN s[2 * i - 1] ELSE 63]

\* read_fstring that keeps the last of the L bytes.
read_fstring_with_nul(buffer, position) ==
    LET Utf8(s) == IF ValidUtf8(s) THEN Some(s) ELSE None
        Positive(start, len) ==
            IF len = 0 THEN [ok |-> TRUE, pos |-> start, v |-> None]
            ELSE IF start + len > Len(buffer) THEN Panic
            ELSE [ok |-> TRUE, pos |-> start + len,
                  v |-> Utf8(SubSeq(buffer, start + 1, start + len))]
        Negative(start, len) ==
            IF start + len > Len(buffer) THEN Panic
            ELSE [ok |-> TRUE, pos |-> start + len,
                  v |-> Some(Utf16Lossy(SubSeq(buffer, start + 1, start + len - 2)))]
        Text(l) ==
            IF ~l.ok THEN Panic
            ELSE IF l.v[4] < 128 THEN Positive(l.pos, Small(Norm(l.v)))
            \* -L = 2^32 - value; small when the upper bytes are FF
            ELSE IF l.v[3] # 255 \/ l.v[4] # 255 THEN Panic
            ELSE Negative(l.pos, 2 * ((255 - l.v[1]) + 256 * (255 - l.v[2]) + 1))
    IN  Text(read_le(buffer, position))

\* read_fstring: Option<String> and the cursor after it.
\*   L > 0: L bytes, the last one dropped, as UTF-8 (None when invalid);
\*   L = 0: None;
\*   L < 0: -2L bytes, the last two dropped, as UTF-16.
\* A length whose bytes run past the buffer panics at the slice.
read_fstring(buffer, position) ==
    LET Utf8(s) == IF ValidUtf8(s) THEN Some(s) ELSE None
        Positive(start, len) ==
            IF len = 0 THEN [ok |-> TRUE, pos |-> start, v |-> None]
            ELSE IF start + len > Len(buffer) THEN Panic
            ELSE [ok |-> TRUE, pos |-> start + len,
                  v |-> Utf8(SubSeq(buffer, start + 1, start + len - 1))]
        Negative(start, len) ==
            IF start + len > Len(buffer) THEN Panic
            ELSE [ok |-> TRUE, pos |-> start + len,
                  v |-> Some(Utf16Lossy(SubSeq(buffer, start + 1, start + len - 2)))]
        Text(l) ==
            IF ~l.ok THEN Panic
            ELSE IF l.v[4] < 128 THEN Positive(l.pos, Small(Norm(l.v)))
            \* -L = 2^32 - value; small when the upper bytes are FF
            ELSE IF l.v[3] # 255 \/ l.v[4] # 255 THEN Panic
            ELSE Negative(l.pos, 2 * ((255 - l.v[1]) + 256 * (255 - l.v[2]) + 1))
    IN  Text(read_le(buffer, position))

\* Option::unwrap_or_default on an Option<String>.
UnwrapOrDefault(o) == IF IsSome(o) THEN o.v ELSE <<>>

\* write_fstring that writes the length of the string itself.
write_fstring_bare_length(string) ==
    IF string # <<>>
    THEN LeBytes(NumOf(Len(string)), 4) \o string \o <<0>>
    ELSE <<0, 0, 0, 0>>

\* write_fstring
write_fstring(string) ==
    IF string # <<>>
    THEN LeBytes(NumOf(Len(string) + 1), 4) \o string \o <<0>>
    ELSE <<0, 0, 0, 0>>

\* decode_hex: the bytes of the pairs s[i..i + 2] for i = 0, 2, 4, ...: the
\* bytes, or Err (a pair that is not hex), or a panic (`&s[i..i + 2]` past
\* the end of an odd-length text). The result is [ok, err, v].
\* u8::from_str_radix accepts a leading "+" before one digit; collect()
\* stops at the first Err: later pairs are not sliced.
decode_hex(s) ==
    LET IsPair(i) ==
            \/ IsHexChar(s[i + 1]) /\ IsHexChar(s[i + 2])
            \/ s[i + 1] = 43 /\ IsHexChar(s[i + 2])
        PairVal(i) ==
            IF s[i + 1] = 43 THEN HexVal(s[i + 2])
            ELSE 16 * HexVal(s[i + 1]) + HexVal(s[i + 2])
    IN  IF \E n \in 1..(Len(s) \div 2) : ~IsPair(2 * (n - 1))
        THEN [ok |-> TRUE, err |-> TRUE, v |-> <<>>]
        ELSE IF Len(s) % 2 = 1 THEN [ok |-> FALSE, err |-> FALSE, v |-> <<>>]
        ELSE [ok |-> TRUE, err |-> FALSE,
              v |-> [n \in 1..(Len(s) \div 2) |-> PairVal(2 * (n - 1))]]

(***************************************************************************)
(* HashMap<String, _> as a function on its key set.                        *)
(***************************************************************************)
EmptyMap == <<>>

\* HashMap::insert
MapInsert(m, k, v) == [x \in (DOMAIN m) \cup {k} |-> IF x = k THEN v ELSE m[x]]

\* The map after inserting (keys[i], vals[i]) for i = 1, 2, ...: a later
\* pair replaces an earlier one with the same key.
MapOfPairs(keys, vals) ==
    [k \in SeqToSet(keys) |->
        vals[CHOOSE i \in 1..Len(keys) :
                /\ keys[i] = k
                /\ \A j \in (i + 1)..Len(keys) : keys[j] # k]]

(***************************************************************************)
(* DownloadManifest::from_vec (download_manifest.rs 294-678). The code     *)
(* keeps a cursor (`position`) into the buffer and reads field after       *)
(* field. A reader state is Panic or                                       *)
(*     [ok |-> TRUE, pos |-> the cursor, out |-> <<the values read>>].     *)
(* An intermediate result that is used more than once is an operator       *)
(* parameter, so that it is computed once.                                 *)
(***************************************************************************)
\* 1153351692 = 0x44BEC00C as the four bytes read_le returns.
Magic == <<12, 192, 190, 68>>

Start(position) == [ok |-> TRUE, pos |-> position, out |-> <<>>]

\* The state s after the read r = [ok, pos, v].
Push(s, r) ==
    IF ~s.ok \/ ~r.ok THEN Panic
    ELSE [ok |-> TRUE, pos |-> r.pos, out |-> Append(s.out, r.v)]

\* A run of reads as one read whose value is the sequence of its values.
AsRead(s) == IF ~s.ok THEN Panic ELSE [ok |-> TRUE, pos |-> s.pos, v |-> s.out]

\* A u32 used as a loop count or a size.
Count(b4) == Small(Norm(b4))

\* The bytes of a field of fixed width.
Width(kind) ==
    CASE kind = "u8" -> 1
      [] kind = "u32" -> 4
      [] kind = "u64" -> 8
      [] kind = "guid" -> 16
      [] kind = "b16" -> 16
      [] kind = "b20" -> 20
      [] kind = "b32" -> 32

\* The GUID text of four u32 read in turn: "{:08x}{:08x}{:08x}{:08x}".
read_guid(buffer, position) ==
    LET Text(r) ==
            IF ~r.ok THEN Panic
            ELSE [ok |-> TRUE, pos |-> r.pos,
                  v |-> FmtHex08(SubSeq(r.v, 1, 4)) \o FmtHex08(SubSeq(r.v, 5, 8))
                        \o FmtHex08(SubSeq(r.v, 9, 12))
                        \o FmtHex08(SubSeq(r.v, 13, 16))]
    IN  Text(read_bytes(buffer, position, 16))

\* One field of the given kind at the cursor: [ok, pos, v].
ReadField(buffer, position, kind) ==
    CASE kind = "u32" -> read_le(buffer, position)
      [] kind = "u64" -> read_le_64(buffer, position)
      [] kind = "u8" -> read_u8(buffer, position)
      [] kind = "fstring" -> read_fstring(buffer, position)
      [] kind = "guid" -> read_guid(buffer, position)
      [] kind = "b16" -> read_bytes(buffer, position, 16)
      [] kind = "b20" -> read_bytes(buffer, position, 20)
      [] kind = "b32" -> read_bytes(buffer, position, 32)

\* `for _ in 0..n` over fields of one fixed width: the loop panics at the
\* first field that runs past the buffer, that is, when the n fields do.
Column(buffer, position, kind, n) ==
    IF n = 0 THEN [ok |-> TRUE, pos |-> position, v |-> <<>>]
    ELSE IF position + n * Width(kind) > Len(buffer) THEN Panic
    ELSE [ok |-> TRUE, pos |-> position + n * Width(kind),
          v |-> [i \in 1..n |->
                    ReadField(buffer, position + (i - 1) * Width(kind), kind).v]]

RECURSIVE Strings(_, _, _)
\* `for _ in 0..n` over read_fstring. A string takes four bytes or more, so
\* a count of Huge or more ends in a panic.
Strings(buffer, s, n) ==
    IF n = 0 \/ ~s.ok THEN s
    ELSE Strings(buffer, Push(s, read_fstring(buffer, s.pos)), n - 1)

RECURSIVE InstallTags(_, _, _)
\* Install tags (538-545): for each of n files a u32 count and that many
\* strings.
InstallTags(buffer, s, n) ==
    LET OfFile(c) ==
            IF ~c.ok THEN Panic
            ELSE Push(s, AsRead(Strings(buffer, Start(c.pos), Count(c.v))))
    IN  IF n = 0 \/ ~s.ok THEN s
        ELSE InstallTags(buffer, OfFile(read_le(buffer, s.pos)), n - 1)

\* The fields of a chunk part (553-571): its size, GUID, offset, size.
PartFields == <<"u32", "guid", "u32", "u32">>

RECURSIVE ReadFields(_, _, _)
\* The fields of the given kinds, one after the other, from state s on.
ReadFields(buffer, s, kinds) ==
    IF kinds = <<>> \/ ~s.ok THEN s
    ELSE ReadFields(buffer, Push(s, ReadField(buffer, s.pos, Head(kinds))),
                    Tail(kinds))

RECURSIVE ChunkParts(_, _, _, _)
\* The n chunk parts of one file (552-574). After the 28 bytes of a part the
\* code computes diff = position - total - chunk_size in usize and, when
\* diff > 0, adds it to the cursor. With overflow checks (checks = TRUE, a
\* debug build) a self-size above 28 panics at the subtraction; without
\* them both operations wrap and the cursor ends at total + 56 - chunk_size
\* for every self-size, a cursor before 0 making the next read panic.
ChunkParts(buffer, s, n, checks) ==
    LET Part(total, r) ==
            IF ~r.ok THEN Panic
            ELSE IF (checks /\ Count(r.out[1]) > 28)
                    \/ total + 56 - Count(r.out[1]) < 0
            THEN Panic
            ELSE [ok |-> TRUE, pos |-> total + 56 - Count(r.out[1]),
                  out |-> Append(s.out,
                             [guid |-> r.out[2], link |-> None,
                              offset |-> Norm(r.out[3]), size |-> Norm(r.out[4])])]
    IN  IF n = 0 \/ ~s.ok THEN s
        ELSE ChunkParts(buffer,
                        Part(s.pos, ReadFields(buffer, Start(s.pos), PartFields)),
                        n - 1, checks)

RECURSIVE FileChunks(_, _, _, _)
\* File Chunks (548-576): for each of n files a u32 count and its parts.
FileChunks(buffer, s, n, checks) ==
    LET OfFile(c) ==
            IF ~c.ok THEN Panic
            ELSE Push(s, AsRead(ChunkParts(buffer, Start(c.pos), Count(c.v), checks)))
    IN  IF n = 0 \/ ~s.ok THEN s
        ELSE FileChunks(buffer, OfFile(read_le(buffer, s.pos)), n - 1, checks)

RECURSIVE Md5s(_, _, _)
\* 579-585: for each of n files a u32 has_md5 and, when it is not 0, 16 bytes.
Md5s(buffer, s, n) ==
    LET OfFile(f) ==
            IF ~f.ok THEN Panic
            ELSE Push(s, Column(buffer, f.pos, "b16",
                                IF Norm(f.v) # <<>> THEN 1 ELSE 0))
    IN  IF n = 0 \/ ~s.ok THEN s
        ELSE Md5s(buffer, OfFile(read_le(buffer, s.pos)), n - 1)

\* A step of the reader: one field, or a loop over n items of one kind.
One(kind) == [kind |-> kind, many |-> FALSE, n |-> 1]
Many(kind, n) == [kind |-> kind, many |-> TRUE, n |-> n]

\* A loop of n items at the cursor as one read.
ReadColumn(buffer, position, kind, n, checks) ==
    CASE kind = "fstring" -> AsRead(Strings(buffer, Start(position), n))
      [] kind = "tags" -> AsRead(InstallTags(buffer, Start(position), n))
      [] kind = "parts" -> AsRead(FileChunks(buffer, Start(position), n, checks))
      [] kind = "md5" -> AsRead(Md5s(buffer, Start(position), n))
      [] OTHER -> Column(buffer, position, kind, n)

RECURSIVE TakeAll(_, _, _, _)
\* The steps one after the other, from state s on.
TakeAll(buffer, s, steps, checks) ==
    IF steps = <<>> \/ ~s.ok THEN s
    ELSE TakeAll(buffer,
                 Push(s, IF Head(steps).many
                         THEN ReadColumn(buffer, s.pos, Head(steps).kind,
                                         Head(steps).n, checks)
                         ELSE ReadField(buffer, s.pos, Head(steps).kind)),
                 Tail(steps), checks)

\* The steps that the values read so far call for.
Then(buffer, s, Steps(_), checks) ==
    IF ~s.ok THEN s ELSE TakeAll(buffer, s, Steps(s.out), checks)

RECURSIVE SelectSome(_)
\* The values of the Some entries, in order.
SelectSome(opts) ==
    IF opts = <<>> THEN <<>>
    ELSE (IF IsSome(Head(opts)) THEN <<Head(opts).v>> ELSE <<>>)
         \o SelectSome(Tail(opts))

\* Manifest Meta (356-406): [ok, pos, v] with v the fields and meta_size.
\* Read: 1 meta_size, 2 data_version, 3 feature level, 4 is_file_data,
\* 5 app_id, 6 app_name, 7 build_version, 8 launch_exe, 9 launch_command,
\* 10 the number of prereq ids; then 11 the ids, 12-14 prereq name, path,
\* args, 15 build id (data_version >= 1), 16 uninstall path and args
\* (data_version >= 2).
ReadMeta(buffer, position) ==
    LET First == <<One("u32"), One("u8"), One("u32"), One("u8"), One("u32"),
                   One("fstring"), One("fstring"), One("fstring"),
                   One("fstring"), One("u32")>>
        Rest(out) == <<Many("fstring", Count(out[10])),
                       One("fstring"), One("fstring"), One("fstring"),
                       Many("fstring", IF out[2] >= 1 THEN 1 ELSE 0),
                       Many("fstring", IF out[2] >= 2 THEN 2 ELSE 0)>>
        Fields(s) ==
            IF ~s.ok THEN Panic
            ELSE [ok |-> TRUE, pos |-> s.pos, v |-> [
                meta_size |-> s.out[1],
                manifest_file_version |-> Norm(s.out[3]),
                b_is_file_data |-> s.out[4] # 0,
                app_id |-> Norm(s.out[5]),
                app_name_string |-> UnwrapOrDefault(s.out[6]),
                build_version_string |->
                    IF s.out[2] >= 1 THEN UnwrapOrDefault(s.out[15][1])
                    ELSE UnwrapOrDefault(s.out[7]),
                launch_exe_string |-> UnwrapOrDefault(s.out[8]),
                launch_command |-> UnwrapOrDefault(s.out[9]),
                prereq_ids |-> IF SelectSome(s.out[11]) = <<>> THEN None
                               ELSE Some(SelectSome(s.out[11])),
                prereq_name |-> UnwrapOrDefault(s.out[12]),
                prereq_path |-> UnwrapOrDefault(s.out[13]),
                prereq_args |-> UnwrapOrDefault(s.out[14]),
                uninstall_action_path |->
                    IF s.out[2] >= 2 THEN Some(UnwrapOrDefault(s.out[16][1]))
                    ELSE None,
                uninstall_action_args |->
                    IF s.out[2] >= 2 THEN Some(UnwrapOrDefault(s.out[16][2]))
                    ELSE None]]
    IN  Fields(Then(buffer, TakeAll(buffer, Start(position), First, FALSE),
                    Rest, FALSE))

\* u128::try_from(i64).unwrap_or_default(): 0 for a negative size.
FileSizeOf(b8) == IF b8[8] >= 128 THEN <<>> ELSE Norm(b8)

\* Chunks (416-489): [ok, pos, v] with v the section size and the four maps.
\* Read: 1 the size, 2 the version, 3 the count; then the columns 4 GUIDs,
\* 5 hashes, 6 SHA-1s, 7 groups, 8 window sizes, 9 file sizes.
ReadChunks(buffer, position) ==
    LET First == <<One("u32"), One("u8"), One("u32")>>
        Rest(out) == <<Many("guid", Count(out[3])), Many("u64", Count(out[3])),
                       Many("b20", Count(out[3])), Many("u8", Count(out[3])),
                       Many("u32", Count(out[3])), Many("u64", Count(out[3]))>>
        Maps(s, n) ==
            IF ~s.ok THEN Panic
            ELSE [ok |-> TRUE, pos |-> s.pos, v |-> [
                chunk_size |-> s.out[1],
                chunk_sha_list |-> Some(MapOfPairs(s.out[4],
                    [i \in 1..n |-> HexBytesInOrder(s.out[6][i], FALSE)])),
                chunk_hash_list |->
                    MapOfPairs(s.out[4], [i \in 1..n |-> Norm(s.out[5][i])]),
                chunk_filesize_list |->
                    MapOfPairs(s.out[4], [i \in 1..n |-> FileSizeOf(s.out[9][i])]),
                data_group_list |->
                    MapOfPairs(s.out[4], [i \in 1..n |-> NumOf(s.out[7][i])])]]
        Table(s) == Maps(s, IF s.ok THEN Len(s.out[4]) ELSE 0)
    IN  Table(Then(buffer, TakeAll(buffer, Start(position), First, FALSE),
                   Rest, FALSE))

\* The file section read with the SHA-256 of the files at version 1.
ReadFiles_sha_at_one(buffer, position, checks) ==
    LET First == <<One("u32"), One("u8"), One("u32")>>
        Rest(out) == <<Many("fstring", Count(out[3])),
                       Many("fstring", Count(out[3])),
                       Many("b20", Count(out[3])), Many("u8", Count(out[3])),
                       Many("tags", Count(out[3])), Many("parts", Count(out[3])),
                       Many("md5", IF out[2] >= 1 THEN Count(out[3]) ELSE 0),
                       Many("fstring", IF out[2] >= 1 THEN Count(out[3]) ELSE 0),
                       Many("b32", IF out[2] >= 1 THEN Count(out[3]) ELSE 0)>>
        List(s) ==
            IF ~s.ok THEN Panic
            ELSE [ok |-> TRUE, pos |-> s.pos, v |-> [
                filemanifest_size |-> s.out[1],
                fm_version |-> s.out[2],
                extras |-> [hash_md5 |-> s.out[10], mime_type |-> s.out[11],
                            hash_sha256 |-> s.out[12]],
                file_manifest_list |-> [i \in 1..Len(s.out[4]) |-> [
                    filename |-> UnwrapOrDefault(s.out[4][i]),
                    file_hash |-> HexBytesInOrder(s.out[6][i], FALSE),
                    file_chunk_parts |-> s.out[9][i]]]]]
    IN  List(Then(buffer, TakeAll(buffer, Start(position), First, checks),
                  Rest, checks))

\* File Manifest (497-621): [ok, pos, v] with v the section size, the file
\* list, and what was read of the optional fields.
\* Read: 1 the size, 2 the version, 3 the count; then 4 filenames,
\* 5 symlink targets, 6 hashes, 7 flags, 8 install tags, 9 chunk parts,
\* and by version 10 MD5s and 11 MIME types (>= 1), 12 SHA-256s (>= 2).
ReadFiles(buffer, position, checks) ==
    LET First == <<One("u32"), One("u8"), One("u32")>>
        Rest(out) == <<Many("fstring", Count(out[3])),
                       Many("fstring", Count(out[3])),
                       Many("b20", Count(out[3])), Many("u8", Count(out[3])),
                       Many("tags", Count(out[3])), Many("parts", Count(out[3])),
                       Many("md5", IF out[2] >= 1 THEN Count(out[3]) ELSE 0),
                       Many("fstring", IF out[2] >= 1 THEN Count(out[3]) ELSE 0),
                       Many("b32", IF out[2] >= 2 THEN Count(out[3]) ELSE 0)>>
        List(s) ==
            IF ~s.ok THEN Panic
            ELSE [ok |-> TRUE, pos |-> s.pos, v |-> [
                filemanifest_size |-> s.out[1],
                fm_version |-> s.out[2],
                extras |-> [hash_md5 |-> s.out[10], mime_type |-> s.out[11],
                            hash_sha256 |-> s.out[12]],
                file_manifest_list |-> [i \in 1..Len(s.out[4]) |-> [
                    filename |-> UnwrapOrDefault(s.out[4][i]),
                    file_hash |-> HexBytesInOrder(s.out[6][i], FALSE),
                    file_chunk_parts |-> s.out[9][i]]]]]
    IN  List(Then(buffer, TakeAll(buffer, Start(position), First, checks),
                  Rest, checks))

\* Custom Fields (629-654): [ok, pos, v] with v the section size and the map.
\* Read: 1 the size, 2 the version, 3 the count; then 4 keys, 5 values.
ReadCustom(buffer, position) ==
    LET First == <<One("u32"), One("u8"), One("u32")>>
        Rest(out) == <<Many("fstring", Count(out[3])),
                       Many("fstring", Count(out[3]))>>
        Map(s) ==
            IF ~s.ok THEN Panic
            ELSE [ok |-> TRUE, pos |-> s.pos, v |-> [
                size |-> s.out[1],
                custom_fields |-> Some(MapOfPairs(
                    [i \in 1..Len(s.out[4]) |-> UnwrapOrDefault(s.out[4][i])],
                    [i \in 1..Len(s.out[4]) |-> UnwrapOrDefault(s.out[5][i])]))]]
    IN  Map(Then(buffer, TakeAll(buffer, Start(position), First, FALSE),
                 Rest, FALSE))

\* The four sections from the cursor on (356-677), with header_size as the
\* code holds it then: [ok, pos, sections, extras, v], v the manifest and
\* sections the cursor before each section and after the last. The closing
\* test (666-675) subtracts the five sizes from the cursor in usize: with
\* overflow checks it panics when they sum to more than the cursor;
\* otherwise it only logs. The arguments of the debug! calls are not
\* evaluated (the library installs no logger).
ReadSections(buffer, position, header_size, checks) ==
    LET Closing(me, ch, fi, cu) ==
            IF ~cu.ok THEN Panic
            ELSE IF checks /\ Count(me.v.meta_size) + header_size
                              + Count(ch.v.chunk_size)
                              + Count(fi.v.filemanifest_size)
                              + Count(cu.v.size) > cu.pos
            THEN Panic
            ELSE [ok |-> TRUE, pos |-> cu.pos,
                  sections |-> <<position, me.pos, ch.pos, fi.pos, cu.pos>>,
                  extras |-> fi.v.extras,
                  v |-> [
                    manifest_file_version |-> me.v.manifest_file_version,
                    b_is_file_data |-> me.v.b_is_file_data,
                    app_id |-> me.v.app_id,
                    app_name_string |-> me.v.app_name_string,
                    build_version_string |-> me.v.build_version_string,
                    uninstall_action_path |-> me.v.uninstall_action_path,
                    uninstall_action_args |-> me.v.uninstall_action_args,
                    launch_exe_string |-> me.v.launch_exe_string,
                    launch_command |-> me.v.launch_command,
                    prereq_ids |-> me.v.prereq_ids,
                    prereq_name |-> me.v.prereq_name,
                    prereq_path |-> me.v.prereq_path,
                    prereq_args |-> me.v.prereq_args,
                    file_manifest_list |-> fi.v.file_manifest_list,
                    chunk_hash_list |-> ch.v.chunk_hash_list,
                    chunk_sha_list |-> ch.v.chunk_sha_list,
                    data_group_list |-> ch.v.data_group_list,
                    chunk_filesize_list |-> ch.v.chunk_filesize_list,
                    custom_fields |-> cu.v.custom_fields]]
        AfterFiles(me, ch, fi) ==
            IF ~fi.ok THEN Panic
            ELSE Closing(me, ch, fi, ReadCustom(buffer, fi.pos))
        AfterChunks(me, ch) ==
            IF ~ch.ok THEN Panic
            ELSE AfterFiles(me, ch, ReadFiles(buffer, ch.pos, checks))
        AfterMeta(me) ==
            IF ~me.ok THEN Panic
            ELSE AfterChunks(me, ReadChunks(buffer, me.pos))
    IN  AfterMeta(ReadMeta(buffer, position))

\* The fields of the header after the magic (325-334): 1 header size,
\* 2 uncompressed size, 3 compressed size, 4 SHA-1, 5 stored-as, 6 version.
HeaderFields == <<"u32", "u32", "u32", "b20", "u8", "u32">>

\* The envelope (317-349): [ok, magic, accepted, compressed, payload,
\* position, header_size, sha_hash]. ok = FALSE is a panic; magic = FALSE
\* is the return of None at 321-324; accepted = FALSE is the return of None
\* at 340-343. A payload stored raw is read in place, after the header; a
\* compressed one is inflated (the unwrap at 339 panics on a zlib error),
\* compared with the digest, and read from its start with header_size 0.
ReadHeader(buffer) ==
    LET Inflated(h, z) ==
            IF ~z.ok THEN Panic
            ELSE [ok |-> TRUE, magic |-> TRUE,
                  accepted |-> do_vecs_match(h.out[4], Sha1(z.v)),
                  compressed |-> TRUE, payload |-> z.v,
                  position |-> 0, header_size |-> 0, sha_hash |-> h.out[4]]
        Header(h) ==
            IF ~h.ok THEN Panic
            ELSE IF h.out[5] = 0
            THEN [ok |-> TRUE, magic |-> TRUE, accepted |-> TRUE,
                  compressed |-> FALSE, payload |-> buffer,
                  position |-> h.pos, header_size |-> Count(h.out[1]),
                  sha_hash |-> h.out[4]]
            ELSE Inflated(h, ZlibDecode(SubSeq(buffer, h.pos + 1, Len(buffer))))
        AfterMagic(m) ==
            IF ~m.ok THEN Panic
            ELSE IF m.v # Magic THEN [ok |-> TRUE, magic |-> FALSE]
            ELSE Header(ReadFields(buffer, Start(m.pos), HeaderFields))
    IN  AfterMagic(read_le(buffer, 0))

\* DownloadManifest::from_vec: [ok, v] with v = None or Some(manifest).
from_vec(buffer, checks) ==
    LET Manifest(s) == IF ~s.ok THEN Panic ELSE Ok(Some(s.v))
        Sections(h) ==
            IF ~h.ok THEN Panic
            ELSE IF ~h.magic THEN Ok(None)
            ELSE IF ~h.accepted THEN Ok(None)
            ELSE Manifest(ReadSections(h.payload, h.position, h.header_size,
                                       checks))
    IN  Sections(ReadHeader(buffer))


(***************************************************************************)
(* DownloadManifest::to_vec (download_manifest.rs 681-991).                *)
(***************************************************************************)
\* The orders in which a HashMap with key set S can be iterated.
Perms(S) ==
    {f \in [1..Cardinality(S) -> S] :
        \A i, j \in 1..Cardinality(S) : f[i] = f[j] => i = j}

\* `(n as u32).to_le_bytes()` of a length.
U32OfLen(n) == LeBytes(NumOf(n), 4)

\* `u32::try_from(num)` as little-endian bytes, or the bytes of `otherwise`.
U32OrElse(num, otherwise) ==
    IF FitsIn(num, 4) THEN LeBytes(num, 4) ELSE LeBytes(otherwise, 4)

RECURSIVE Chunks8(_)
\* `as_bytes().chunks(8)`: pieces of 8 bytes, the last one shorter.
Chunks8(s) ==
    IF s = <<>> THEN <<>>
    ELSE IF Len(s) <= 8 THEN <<s>>
    ELSE <<SubSeq(s, 1, 8)>> \o Chunks8(SubSeq(s, 9, Len(s)))

RECURSIVE HexPairs(_)
\* The bytes of an even number of hex digits, most significant first.
HexPairs(d) ==
    IF d = <<>> THEN <<>>
    ELSE <<16 * HexVal(d[1]) + HexVal(d[2])>> \o HexPairs(SubSeq(d, 3, Len(d)))

\* `u32::from_str_radix(g, 16).unwrap().to_le_bytes()` for a text of 1 to 8
\* bytes: hex digits after an optional "+"; anything else is Err, and the
\* unwrap panics.
HexWord(g) ==
    LET Word(d) ==
            IF d = <<>> \/ \E i \in 1..Len(d) : ~IsHexChar(d[i]) THEN Panic
            ELSE Ok(Reverse(HexPairs(PadLeft(d, 8, ChZero))))
    IN  Word(IF g # <<>> /\ g[1] = 43 THEN Tail(g) ELSE g)

\* The bytes of a followed by the bytes of b; a panic when either panicked.
Both(a, b) == IF ~a.ok \/ ~b.ok THEN Panic ELSE Ok(a.v \o b.v)

RECURSIVE HexWords(_)
HexWords(gs) ==
    IF gs = <<>> THEN Ok(<<>>)
    ELSE Both(HexWord(Head(gs)), HexWords(Tail(gs)))

\* The words a GUID text is written as (763-779, 891-906).
GuidBytes(guid) == HexWords(Chunks8(guid))

RECURSIVE GuidsBytes(_)
GuidsBytes(guids) ==
    IF guids = <<>> THEN Ok(<<>>)
    ELSE Both(GuidBytes(Head(guids)), GuidsBytes(Tail(guids)))

\* `match decode_hex(s) { Ok(s) => s, Err(_) => vec![0u8; 20] }`
HexOrZeros(s) ==
    LET Bytes(d) == IF ~d.ok THEN Panic ELSE IF d.err THEN Ok(Zeros(20)) ELSE Ok(d.v)
    IN  Bytes(decode_hex(s))

RECURSIVE HexesOrZeros(_)
HexesOrZeros(ss) ==
    IF ss = <<>> THEN Ok(<<>>)
    ELSE Both(HexOrZeros(Head(ss)), HexesOrZeros(Tail(ss)))

\* Vec::resize(n, 0)
Resize(v, n) == IF n <= Len(v) THEN SubSeq(v, 1, n) ELSE v \o Zeros(n - Len(v))

\* The metadata section without its size (685-740).
MetaBytes(m) ==
    <<IF m.build_version_string = <<>> THEN 0 ELSE 1>>
    \o U32OrElse(m.manifest_file_version, <<18>>)
    \o <<0>>
    \o U32OrElse(m.app_id, <<>>)
    \o write_fstring(m.app_name_string)
    \o write_fstring(m.build_version_string)
    \o write_fstring(m.launch_exe_string)
    \o write_fstring(m.launch_command)
    \o (IF IsSome(m.prereq_ids)
        THEN U32OfLen(Len(m.prereq_ids.v))
             \o Concat([i \in 1..Len(m.prereq_ids.v) |->
                            write_fstring(m.prereq_ids.v[i])])
        ELSE <<0, 0, 0, 0>>)
    \o write_fstring(m.prereq_name)
    \o write_fstring(m.prereq_path)
    \o write_fstring(m.prereq_args)
    \o (IF m.build_version_string # <<>>
        THEN write_fstring(m.build_version_string) ELSE <<>>)

\* The chunks section without its size (753-826). ord gives the iteration
\* order of each of the four maps: .keys() and .values() of one map agree,
\* two maps need not.
ChunkBytes(m, ord) ==
    LET FileSize(f) == IF FitsIn(f, 8) /\ LeBytes(f, 8)[8] < 128
                       THEN LeBytes(f, 8) ELSE Zeros(8)
        Section(guids, shas) ==
        IF ~guids.ok \/ ~shas.ok THEN Panic
        ELSE Ok(<<0>>
            \o U32OfLen(Len(ord.hash))
            \o guids.v
            \o Concat([i \in 1..Len(ord.hash) |->
                  IF FitsIn(m.chunk_hash_list[ord.hash[i]], 8)
                  THEN LeBytes(m.chunk_hash_list[ord.hash[i]], 8) ELSE Zeros(8)])
            \o shas.v
            \o Concat([i \in 1..Len(ord.group) |->
                  IF FitsIn(m.data_group_list[ord.group[i]], 1)
                  THEN LeBytes(m.data_group_list[ord.group[i]], 1) ELSE <<0>>])
            \o Concat([i \in 1..Len(ord.size) |->
                  U32OrElse(m.chunk_filesize_list[ord.size[i]], <<>>)])
            \o Concat([i \in 1..Len(ord.size) |->
                  FileSize(m.chunk_filesize_list[ord.size[i]])]))
    IN  Section(GuidsBytes(ord.hash),
                IF IsSome(m.chunk_sha_list)
                THEN HexesOrZeros([i \in 1..Len(ord.sha) |->
                                       m.chunk_sha_list.v[ord.sha[i]]])
                ELSE Panic)

\* One chunk part (890-914).
PartBytes(part) ==
    Both(Ok(<<28, 0, 0, 0>>),
         Both(GuidBytes(part.guid),
              Ok(U32OrElse(part.offset, <<>>) \o U32OrElse(part.size, <<>>))))

RECURSIVE PartsBytes(_)
PartsBytes(parts) ==
    IF parts = <<>> THEN Ok(<<>>)
    ELSE Both(PartBytes(Head(parts)), PartsBytes(Tail(parts)))

RECURSIVE FileChunkBytes(_)
\* File Chunks (882-916): per file the part count and the parts.
FileChunkBytes(files) ==
    IF files = <<>> THEN Ok(<<>>)
    ELSE Both(Ok(U32OfLen(Len(Head(files).file_chunk_parts))),
              Both(PartsBytes(Head(files).file_chunk_parts),
                   FileChunkBytes(Tail(files))))

\* What the section holds before the flags are added (841-868).
FilesHead(m) ==
    LET Section(fl) ==
            Both(Ok(<<0>>
                    \o U32OfLen(Len(fl))
                    \o Concat([i \in 1..Len(fl) |-> write_fstring(fl[i].filename)])
                    \o Concat([i \in 1..Len(fl) |-> write_fstring(<<>>)])),
                 HexesOrZeros([i \in 1..Len(fl) |-> fl[i].file_hash]))
    IN  Section(m.file_manifest_list)

\* The flags (870-872): `files.resize(self.file_manifest_list.len(), 0)`
\* sets the length of the whole section so far to the number of files.
WithFlags(head, n) == Resize(head, n)

\* The files section without its size (841-916).
FileBytes(m) ==
    LET Section(n, head, parts) ==
            IF ~head.ok \/ ~parts.ok THEN Panic
            ELSE Ok(WithFlags(head.v, n)
                    \o Concat([i \in 1..n |-> <<0, 0, 0, 0>>])
                    \o parts.v)
    IN  Section(Len(m.file_manifest_list), FilesHead(m),
                FileChunkBytes(m.file_manifest_list))

\* The custom fields section without its size (929-951); for None a single
\* byte is pushed as the count.
CustomBytes(m, ord) ==
    <<0>>
    \o (IF IsSome(m.custom_fields)
        THEN U32OfLen(Len(ord.custom))
             \o Concat([i \in 1..Len(ord.custom) |-> write_fstring(ord.custom[i])])
             \o Concat([i \in 1..Len(ord.custom) |->
                            write_fstring(m.custom_fields.v[ord.custom[i]])])
        ELSE <<0>>)

\* A section with its size in front: `(len + 4) as u32` and the bytes.
Sized(bytes) == U32OfLen(Len(bytes) + 4) \o bytes

\* The uncompressed payload of to_vec (the four sections).
PayloadBytes(m, ord) ==
    LET Sections(chunksec, filesec) ==
            IF ~chunksec.ok \/ ~filesec.ok THEN Panic
            ELSE Ok(Sized(MetaBytes(m)) \o Sized(chunksec.v) \o Sized(filesec.v)
                    \o Sized(CustomBytes(m, ord)))
    IN  Sections(ChunkBytes(m, ord), FileBytes(m))

\* The header with the length of the payload in both size fields.
Envelope_one_size(payload) ==
    LET Header(compressed) ==
            Magic \o <<41, 0, 0, 0>> \o U32OfLen(Len(payload))
            \o U32OfLen(Len(payload)) \o Sha1(payload) \o <<1>>
            \o <<18, 0, 0, 0>> \o compressed
    IN  Header(ZlibEncode(payload))

\* The header and the compressed payload (962-990).
Envelope(payload) ==
    LET Header(compressed) ==
            Magic \o <<41, 0, 0, 0>> \o U32OfLen(Len(payload))
            \o U32OfLen(Len(compressed)) \o Sha1(payload) \o <<1>>
            \o <<18, 0, 0, 0>> \o compressed
    IN  Header(ZlibEncode(payload))

\* DownloadManifest::to_vec: the bytes, or a panic.
to_vec(m, ord) ==
    LET Bytes(payload) == IF ~payload.ok THEN Panic ELSE Ok(Envelope(payload.v))
    IN  Bytes(PayloadBytes(m, ord))

\* The iteration orders to_vec can meet on manifest m.
Orders(m) ==
    [hash : Perms(DOMAIN m.chunk_hash_list),
     sha : IF IsSome(m.chunk_sha_list) THEN Perms(DOMAIN m.chunk_sha_list.v)
           ELSE {<<>>},
     group : Perms(DOMAIN m.data_group_list),
     size : Perms(DOMAIN m.chunk_filesize_list),
     custom : IF IsSome(m.custom_fields) THEN Perms(DOMAIN m.custom_fields.v)
              ELSE {<<>>}]

(***************************************************************************)
(* Url::parse and Url's text (crate url, through reqwest::Url), on the     *)
(* texts of the model: ASCII without userinfo, port, query, fragment, dot  *)
(* segments or characters that are percent-encoded.                        *)
(***************************************************************************)
IsAlpha(c) == (c >= 65 /\ c <= 90) \/ (c >= 97 /\ c <= 122)
IsSchemeChar(c) == IsAlpha(c) \/ (c >= 48 /\ c <= 57) \/ c \in {43, 45, 46}

\* The index of the first byte c of s, or 0.
IndexOf(s, c) ==
    IF \E i \in 1..Len(s) : s[i] = c
    THEN CHOOSE i \in 1..Len(s) : s[i] = c /\ \A j \in 1..(i - 1) : s[j] # c
    ELSE 0

\* The schemes whose URLs have a host that is lowercased: "http", "https".
SpecialSchemes == {<<104, 116, 116, 112>>, <<104, 116, 116, 112, 115>>}

\* Url::parse(text): Err for a text without a scheme (a relative URL) or,
\* for a special scheme, without a host; else the URL, as its text: scheme
\* and host in lowercase, the path as given.
UrlParse(text) ==
    LET Special(scheme, host, path) ==
            IF host = <<>> THEN Panic
            ELSE Ok(scheme \o <<58, 47, 47>> \o ToLower(host) \o path)
        Authority(scheme, after, slash) ==
            Special(scheme,
                    IF slash = 0 THEN after ELSE SubSeq(after, 1, slash - 1),
                    IF slash = 0 THEN <<47>> ELSE SubSeq(after, slash, Len(after)))
        Parts(scheme, rest) ==
            IF scheme \in SpecialSchemes
            THEN IF ~(Len(rest) >= 2 /\ rest[1] = 47 /\ rest[2] = 47) THEN Panic
                 ELSE Authority(scheme, SubSeq(rest, 3, Len(rest)),
                                IndexOf(SubSeq(rest, 3, Len(rest)), 47))
            ELSE Ok(scheme \o <<58>> \o rest)
        Scheme(colon) ==
            IF colon <= 1 \/ ~IsAlpha(text[1])
               \/ \E i \in 1..(colon - 1) : ~IsSchemeChar(text[i])
            THEN Panic
            ELSE Parts(ToLower(SubSeq(text, 1, colon - 1)),
                       SubSeq(text, colon + 1, Len(text)))
    IN  Scheme(IndexOf(text, 58))

(***************************************************************************)
(* DownloadManifest: custom fields, URL derivation, file view, parse       *)
(* (download_manifest.rs 138-291).                                         *)
(***************************************************************************)
\* "SourceURL"
KeySourceURL == <<83, 111, 117, 114, 99, 101, 85, 82, 76>>
\* "BaseUrl"
KeyBaseUrl == <<66, 97, 115, 101, 85, 114, 108>>
\* "DownloadedManifestHash"
KeyDownloadedManifestHash == <<68, 111, 119, 110, 108, 111, 97, 100, 101, 100, 77, 97, 110, 105, 102, 101, 115, 116, 72, 97, 115, 104>>

\* chunk_dir with `>` where the code has `>=`.
chunk_dir_above(version) ==
    IF Small(version) > 15 THEN <<67, 104, 117, 110, 107, 115, 86, 52>>
    ELSE IF Small(version) > 6 THEN <<67, 104, 117, 110, 107, 115, 86, 51>>
    ELSE IF Small(version) > 3 THEN <<67, 104, 117, 110, 107, 115, 86, 50>>
    ELSE <<67, 104, 117, 110, 107, 115>>

\* chunk_dir
chunk_dir(version) ==
    IF Small(version) >= 15 THEN <<67, 104, 117, 110, 107, 115, 86, 52>>
    ELSE IF Small(version) >= 6 THEN <<67, 104, 117, 110, 107, 115, 86, 51>>
    ELSE IF Small(version) >= 3 THEN <<67, 104, 117, 110, 107, 115, 86, 50>>
    ELSE <<67, 104, 117, 110, 107, 115>>

\* set_custom_field with `entry(key).or_insert(value)` where the code has
\* `insert(key, value)`: a value already present stays.
set_custom_field_keeping(m, key, value) ==
    IF IsSome(m.custom_fields) /\ key \in DOMAIN m.custom_fields.v THEN m
    ELSE [m EXCEPT !.custom_fields =
            IF IsSome(m.custom_fields)
            THEN Some(MapInsert(m.custom_fields.v, key, value))
            ELSE Some(MapInsert(EmptyMap, key, value))]

\* set_custom_field building a new map for the one entry whether or not
\* the manifest has a map already.
set_custom_field_alone(m, key, value) ==
    [m EXCEPT !.custom_fields = Some(MapInsert(EmptyMap, key, value))]

\* set_custom_field
set_custom_field(m, key, value) ==
    [m EXCEPT !.custom_fields =
        IF IsSome(m.custom_fields) THEN Some(MapInsert(m.custom_fields.v, key, value))
        ELSE Some(MapInsert(EmptyMap, key, value))]

\* custom_field
custom_field(m, key) ==
    IF IsSome(m.custom_fields) /\ key \in DOMAIN m.custom_fields.v
    THEN Some(m.custom_fields.v[key])
    ELSE None

\* `urls.split(',').first()`: the text before the first comma.
FirstOfCsv(urls) ==
    LET Before(c) == IF c = 0 THEN urls ELSE SubSeq(urls, 1, c - 1)
    IN  Before(IndexOf(urls, 44))

\* The base of the links (170-186): SourceURL, else the first BaseUrl.
BaseOf(m) ==
    IF IsSome(custom_field(m, KeySourceURL)) THEN custom_field(m, KeySourceURL)
    ELSE IF IsSome(custom_field(m, KeyBaseUrl))
    THEN Some(FirstOfCsv(custom_field(m, KeyBaseUrl).v))
    ELSE None

\* format!("{}/{}/{:02}/{:016X}_{}.chunk", url, chunk_dir, group_num, hash,
\*         guid.to_uppercase())
LinkText(url, dir, group_num, hash, guid) ==
    url \o <<47>> \o dir \o <<47>> \o FmtDec02(group_num) \o <<47>>
    \o FmtHex016Upper(hash) \o <<95>> \o ToUpper(guid) \o <<46, 99, 104, 117, 110, 107>>

\* The GUIDs download_links makes a link for (191-197).
LinkedGuids(m) == (DOMAIN m.chunk_hash_list) \cap (DOMAIN m.data_group_list)

\* download_links: [ok, v] with v = None or Some(map from GUID to URL); a
\* panic when a link text is not a URL (the unwrap at 208).
download_links(m) ==
    LET Result(links) ==
            IF \E g \in DOMAIN links : ~links[g].ok THEN Panic
            ELSE Ok(Some([g \in DOMAIN links |-> links[g].v]))
        Links(base, dir) ==
            IF ~IsSome(base) THEN Ok(None)
            ELSE Result([g \in LinkedGuids(m) |->
                            UrlParse(LinkText(base.v, dir, m.data_group_list[g],
                                              m.chunk_hash_list[g], g))])
    IN  Links(BaseOf(m), chunk_dir(m.manifest_file_version))

\* The parts of one file with `break` where the code has `continue`: the
\* parts before the first one whose GUID has no link.
LinkedParts_until_missing(parts, links) ==
    LET Missing == {j \in 1..Len(parts) : parts[j].guid \notin DOMAIN links}
        Upto(n) ==
            [i \in 1..n |->
                [guid |-> parts[i].guid, link |-> Some(links[parts[i].guid]),
                 offset |-> parts[i].offset, size |-> parts[i].size]]
    IN  Upto(IF Missing = {} THEN Len(parts)
             ELSE (CHOOSE j \in Missing : \A k \in Missing : j <= k) - 1)

\* The file_chunk_parts of files() for one file (226-240).
LinkedParts(parts, links) ==
    LET Kept(p) == p.guid \in DOMAIN links
        Linked(keep) ==
            [i \in 1..Len(keep) |->
                [guid |-> keep[i].guid, link |-> Some(links[keep[i].guid]),
                 offset |-> keep[i].offset, size |-> keep[i].size]]
    IN  Linked(SelectSeq(parts, Kept))

\* files: [ok, v] with v the map from filename to record; a later file of
\* the list replaces an earlier one with the same name.
files(m) ==
    LET Records(fl, links) ==
            MapOfPairs(
                [i \in 1..Len(fl) |-> fl[i].filename],
                [i \in 1..Len(fl) |->
                    [filename |-> fl[i].filename,
                     file_hash |-> fl[i].file_hash,
                     file_chunk_parts |->
                         LinkedParts(fl[i].file_chunk_parts, links)]])
        View(dl) ==
            IF ~dl.ok THEN Panic
            ELSE Ok(Records(m.file_manifest_list,
                            IF IsSome(dl.v) THEN dl.v.v ELSE EmptyMap))
    IN  View(download_links(m))

(***************************************************************************)
(* The blob integers of the JSON manifest (utils.rs 9-34).                 *)
(***************************************************************************)
IsDigit(c) == c >= 48 /\ c <= 57

\* `string[i..i + 3].parse::<u128>()` on a group of three bytes: Some(n) for
\* three digits, or "+" and two digits; None when it fails to parse.
ParseGroup(g) ==
    IF IsDigit(g[1]) /\ IsDigit(g[2]) /\ IsDigit(g[3])
    THEN Some(100 * (g[1] - 48) + 10 * (g[2] - 48) + (g[3] - 48))
    ELSE IF g[1] = 43 /\ IsDigit(g[2]) /\ IsDigit(g[3])
    THEN Some(10 * (g[2] - 48) + (g[3] - 48))
    ELSE None

\* a + b on little-endian bytes. A byte takes a carry when a lower place
\* overflows and every place between the two is full (sums to 255).
AddNum(a, b) ==
    LET At(x, i) == IF i <= Len(x) THEN x[i] ELSE 0
        Carry(i) ==
            \E j \in 1..(i - 1) :
                /\ At(a, j) + At(b, j) >= 256
                /\ \A l \in (j + 1)..(i - 1) : At(a, l) + At(b, l) = 255
    IN  Norm([i \in 1..((IF Len(a) > Len(b) THEN Len(a) ELSE Len(b)) + 1) |->
                 (At(a, i) + At(b, i) + (IF Carry(i) THEN 1 ELSE 0)) % 256])

\* n shifted left by 8 * k bits, n below 65536.
ShlBytes(n, k) == Norm(Zeros(k) \o <<n % 256, n \div 256>>)

\* The width of u128 in bytes.
U128Bytes == 4 * 4

\* The loop variables of blob_to_num and bigblob_to_num: num, and the byte
\* offset k = shift / 8.
LoopVars(num, k) == [ok |-> TRUE, num |-> num, k |-> k]

\* One pass of the loop of blob_to_num at zero-based index i, from the loop
\* variables s. The slice string[i..i + 3] panics when the text ends inside
\* a group; checked_shl gives 0 from shift 128 on and otherwise drops the
\* bits above 128; `num +=` overflows u128 with a panic under overflow
\* checks and wraps without them; the shift moves on only when the group
\* parsed.
BlobPass(string, i, s, checks) ==
    IF i + 3 > Len(string) THEN Panic
    ELSE LET Added(sum) ==
                 IF Len(sum) > U128Bytes /\ checks THEN Panic
                 ELSE LoopVars(Norm(LeBytes(sum, U128Bytes)), s.k + 1)
             Group(n) ==
                 IF ~IsSome(n) THEN s
                 ELSE Added(AddNum(s.num,
                          IF s.k >= U128Bytes THEN <<>>
                          ELSE Norm(LeBytes(ShlBytes(n.v, s.k), U128Bytes))))
         IN  Group(ParseGroup(SubSeq(string, i + 1, i + 3)))

RECURSIVE BlobLoop(_, _, _, _)
\* The loop of blob_to_num from zero-based index i on.
BlobLoop(string, i, s, checks) ==
    IF ~s.ok THEN Panic
    ELSE IF i >= Len(string) THEN Ok(s.num)
    ELSE BlobLoop(string, i + 3, BlobPass(string, i, s, checks), checks)

\* blob_to_num with the shift starting at 8 instead of 0.
blob_to_num_from_one(string, checks) ==
    BlobLoop(string, 0, LoopVars(<<>>, 1), checks)

\* blob_to_num
blob_to_num(string, checks) == BlobLoop(string, 0, LoopVars(<<>>, 0), checks)

\* One pass of the loop of bigblob_to_num: as BlobPass on a BigUint, which
\* has no width to overflow.
BigBlobPass(string, i, s) ==
    IF i + 3 > Len(string) THEN Panic
    ELSE LET Group(n) ==
                 IF ~IsSome(n) THEN s
                 ELSE LoopVars(AddNum(s.num, ShlBytes(n.v, s.k)), s.k + 1)
         IN  Group(ParseGroup(SubSeq(string, i + 1, i + 3)))

RECURSIVE BigBlobLoop(_, _, _)
BigBlobLoop(string, i, s) ==
    IF ~s.ok THEN Panic
    ELSE IF i >= Len(string) THEN Ok(s.num)
    ELSE BigBlobLoop(string, i + 3, BigBlobPass(string, i, s))

\* bigblob_to_num
bigblob_to_num(string) == BigBlobLoop(string, 0, LoopVars(<<>>, 0))

\* deserialize_epic_hash (74-109): the little-endian bytes of the number,
\* filled up to 20, each as two lowercase hex digits.
deserialize_epic_hash(string) ==
    LET Text(n) ==
            IF ~n.ok THEN Panic
            ELSE Ok(HexBytesInOrder(
                     IF Len(n.v) < 20 THEN LeBytes(n.v, 20) ELSE n.v, FALSE))
    IN  Text(bigblob_to_num(string))

RECURSIVE AllOk(_)
AllOk(rs) == rs = <<>> \/ (Head(rs).ok /\ AllOk(Tail(rs)))

\* deserialize_epic_hashmap (111-136) on the members of a JSON object, in
\* the order of the text: every key is a String, every value a blob.
deserialize_epic_hashmap(members, checks) ==
    LET Map(vals) ==
            IF ~AllOk(vals) THEN Panic
            ELSE Ok(MapOfPairs([i \in 1..Len(members) |-> members[i][1]],
                               [i \in 1..Len(members) |-> vals[i].v]))
    IN  Map([i \in 1..Len(members) |-> blob_to_num(members[i][2], checks)])

(***************************************************************************)
(* serde_json::from_slice::<DownloadManifest> (19-45, 994-1024). A JSON    *)
(* manifest is held as a document: a record of the members of the object,  *)
(* the values still the texts of the JSON strings, the objects sequences   *)
(* of <<key, value>> in the order of the text. JsonText is the text of a   *)
(* document; the decoder accepts the texts of documents.                   *)
(***************************************************************************)
Quoted(str) == <<34>> \o str \o <<34>>

\* "name":
Member(name) == Quoted(name) \o <<58>>

RECURSIVE Joined(_)
\* The texts separated by commas.
Joined(ts) ==
    IF ts = <<>> THEN <<>>
    ELSE IF Len(ts) = 1 THEN ts[1]
    ELSE ts[1] \o <<44>> \o Joined(Tail(ts))

\* {"k":"v",...}
JsonObject(members) ==
    <<123>> \o Joined([i \in 1..Len(members) |->
                          Member(members[i][1]) \o Quoted(members[i][2])])
    \o <<125>>

JsonPart(p) ==
    <<123>> \o Member(<<71, 117, 105, 100>>) \o Quoted(p.Guid) \o <<44>>
    \o Member(<<79, 102, 102, 115, 101, 116>>) \o Quoted(p.Offset) \o <<44>>
    \o Member(<<83, 105, 122, 101>>) \o Quoted(p.Size) \o <<125>>

JsonFile(f) ==
    <<123>> \o Member(<<70, 105, 108, 101, 110, 97, 109, 101>>) \o Quoted(f.Filename) \o <<44>>
    \o Member(<<70, 105, 108, 101, 72, 97, 115, 104>>) \o Quoted(f.FileHash) \o <<44>>
    \o Member(<<70, 105, 108, 101, 67, 104, 117, 110, 107, 80, 97, 114, 116, 115>>) \o <<91>>
    \o Joined([i \in 1..Len(f.FileChunkParts) |-> JsonPart(f.FileChunkParts[i])])
    \o <<93, 125>>

\* The text of a document. A document with ChunkHashList = None lacks that
\* required member.
JsonText(d) ==
    Concat(<<
        <<123>>,
        Member(<<77, 97, 110, 105, 102, 101, 115, 116, 70, 105, 108, 101, 86, 101, 114, 115, 105, 111, 110>>) \o Quoted(d.ManifestFileVersion) \o <<44>>,
        Member(<<98, 73, 115, 70, 105, 108, 101, 68, 97, 116, 97>>),
        (IF d.bIsFileData THEN <<116, 114, 117, 101>> ELSE <<102, 97, 108, 115, 101>>) \o <<44>>,
        Member(<<65, 112, 112, 73, 68>>) \o Quoted(d.AppID) \o <<44>>,
        Member(<<65, 112, 112, 78, 97, 109, 101, 83, 116, 114, 105, 110, 103>>) \o Quoted(d.AppNameString) \o <<44>>,
        Member(<<66, 117, 105, 108, 100, 86, 101, 114, 115, 105, 111, 110, 83, 116, 114, 105, 110, 103>>) \o Quoted(d.BuildVersionString) \o <<44>>,
        Member(<<76, 97, 117, 110, 99, 104, 69, 120, 101, 83, 116, 114, 105, 110, 103>>) \o Quoted(d.LaunchExeString) \o <<44>>,
        Member(<<76, 97, 117, 110, 99, 104, 67, 111, 109, 109, 97, 110, 100>>) \o Quoted(d.LaunchCommand) \o <<44>>,
        Member(<<80, 114, 101, 114, 101, 113, 78, 97, 109, 101>>) \o Quoted(d.PrereqName) \o <<44>>,
        Member(<<80, 114, 101, 114, 101, 113, 80, 97, 116, 104>>) \o Quoted(d.PrereqPath) \o <<44>>,
        Member(<<80, 114, 101, 114, 101, 113, 65, 114, 103, 115>>) \o Quoted(d.PrereqArgs) \o <<44>>,
        Member(<<70, 105, 108, 101, 77, 97, 110, 105, 102, 101, 115, 116, 76, 105, 115, 116>>) \o <<91>>,
        Joined([i \in 1..Len(d.FileManifestList) |-> JsonFile(d.FileManifestList[i])]),
        <<93>>,
        (IF IsSome(d.ChunkHashList)
            THEN <<44>> \o Member(<<67, 104, 117, 110, 107, 72, 97, 115, 104, 76, 105, 115, 116>>) \o JsonObject(d.ChunkHashList.v)
            ELSE <<>>),
        (IF IsSome(d.ChunkShaList)
            THEN <<44>> \o Member(<<67, 104, 117, 110, 107, 83, 104, 97, 76, 105, 115, 116>>) \o JsonObject(d.ChunkShaList.v)
            ELSE <<>>),
        <<44>> \o Member(<<68, 97, 116, 97, 71, 114, 111, 117, 112, 76, 105, 115, 116>>) \o JsonObject(d.DataGroupList),
        <<44>> \o Member(<<67, 104, 117, 110, 107, 70, 105, 108, 101, 115, 105, 122, 101, 76, 105, 115, 116>>) \o JsonObject(d.ChunkFilesizeList),
        (IF IsSome(d.CustomFields)
            THEN <<44>> \o Member(<<67, 117, 115, 116, 111, 109, 70, 105, 101, 108, 100, 115>>) \o JsonObject(d.CustomFields.v)
            ELSE <<>>),
        <<125>> >>)

\* A plain HashMap<String, String> from the members of an object.
StringMap(members) ==
    MapOfPairs([i \in 1..Len(members) |-> members[i][1]],
               [i \in 1..Len(members) |-> members[i][2]])

\* The manifest of a document: [ok, err, v]. ok = FALSE is a panic inside a
\* deserializer, err = TRUE the decoder's Err (a required member missing).
Deserialize(d, checks) ==
    LET Manifest(fl, version, app, hashes, offsets, sizes, hl, gl, sl) ==
        IF ~version.ok \/ ~app.ok \/ ~AllOk(hashes)
           \/ (\E i \in 1..Len(fl) : ~AllOk(offsets[i]) \/ ~AllOk(sizes[i]))
           \/ ~hl.ok \/ ~gl.ok \/ ~sl.ok
        THEN [ok |-> FALSE, err |-> FALSE]
        ELSE IF ~IsSome(d.ChunkHashList) THEN [ok |-> TRUE, err |-> TRUE]
        ELSE [ok |-> TRUE, err |-> FALSE, v |-> [
            manifest_file_version |-> version.v,
            b_is_file_data |-> d.bIsFileData,
            app_id |-> app.v,
            app_name_string |-> d.AppNameString,
            build_version_string |-> d.BuildVersionString,
            uninstall_action_path |-> None,
            uninstall_action_args |-> None,
            launch_exe_string |-> d.LaunchExeString,
            launch_command |-> d.LaunchCommand,
            prereq_ids |-> None,
            prereq_name |-> d.PrereqName,
            prereq_path |-> d.PrereqPath,
            prereq_args |-> d.PrereqArgs,
            file_manifest_list |-> [i \in 1..Len(fl) |-> [
                filename |-> fl[i].Filename,
                file_hash |-> hashes[i].v,
                file_chunk_parts |-> [j \in 1..Len(fl[i].FileChunkParts) |-> [
                    guid |-> fl[i].FileChunkParts[j].Guid,
                    link |-> None,
                    offset |-> offsets[i][j].v,
                    size |-> sizes[i][j].v]]]],
            chunk_hash_list |-> hl.v,
            chunk_sha_list |->
                IF IsSome(d.ChunkShaList) THEN Some(StringMap(d.ChunkShaList.v))
                ELSE None,
            data_group_list |-> gl.v,
            chunk_filesize_list |-> sl.v,
            custom_fields |->
                IF IsSome(d.CustomFields) THEN Some(StringMap(d.CustomFields.v))
                ELSE None]]
        Files(fl) ==
            Manifest(fl,
                blob_to_num(d.ManifestFileVersion, checks),
                blob_to_num(d.AppID, checks),
                [i \in 1..Len(fl) |-> deserialize_epic_hash(fl[i].FileHash)],
                [i \in 1..Len(fl) |->
                    [j \in 1..Len(fl[i].FileChunkParts) |->
                        blob_to_num(fl[i].FileChunkParts[j].Offset, checks)]],
                [i \in 1..Len(fl) |->
                    [j \in 1..Len(fl[i].FileChunkParts) |->
                        blob_to_num(fl[i].FileChunkParts[j].Size, checks)]],
                IF IsSome(d.ChunkHashList)
                THEN deserialize_epic_hashmap(d.ChunkHashList.v, checks)
                ELSE Ok(EmptyMap),
                deserialize_epic_hashmap(d.DataGroupList, checks),
                deserialize_epic_hashmap(d.ChunkFilesizeList, checks))
    IN  Files(d.FileManifestList)


(***************************************************************************)
(* The inputs of the model: binary manifests written to the wire format    *)
(* (spec 4.2, 4.3), damaged copies of them, JSON manifests and other       *)
(* buffers.                                                                *)
(***************************************************************************)
\* The most chunks, files and parts per file of an input manifest.
MaxChunks == 2
MaxFiles == 2
MaxParts == 2
\* The most set_custom_field calls after a parse.
MaxSets == 1

WireU32(n) == <<n % 256, (n \div 256) % 256, 0, 0>>

WireString(str) ==
    IF str = <<>> THEN <<0, 0, 0, 0>> ELSE WireU32(Len(str) + 1) \o str \o <<0>>

\* The same text as UTF-16: a negative length, two bytes per unit.
WireString16(str) ==
    <<255 - Len(str), 255, 255, 255>>
    \o Concat([i \in 1..Len(str) |-> <<str[i], 0>>]) \o <<0, 0>>

WireSection(bytes) == WireU32(Len(bytes) + 4) \o bytes

\* The i-th chunk of the inputs: GUID words, rolling hash, SHA-1, data
\* group, window size, file size.
GuidRaw(i) == [j \in 1..16 |-> (i * 16 + j * 7 + 160) % 256]
HashRaw(i) ==
    IF i = 1 THEN <<239, 205, 171, 137, 103, 69, 35, 1>>
    ELSE <<i, 0, 0, 0, 0, 0, 0, 128>>
ShaRaw(i) == [j \in 1..20 |-> (i * 20 + j) % 256]
GroupRaw(i) == IF i = 1 THEN 7 ELSE (253 + i) % 256
SizeRaw(i) == <<i, 1, 0, 0, 0, 0, 0, 0>>

\* The GUID as from_vec renders it.
GuidText(i) == read_guid(GuidRaw(i), 0).v

\* The j-th part of file i refers to a chunk of the table; the first part
\* of the second file, and every part when the table is empty, refers to a
\* chunk that is not in the table (a dangling reference).
PartChunk(i, j, nch) ==
    IF nch = 0 \/ (i = 2 /\ j = 1) THEN nch + 1 ELSE ((i + j) % nch) + 1

NParts(i) == Min(i, MaxParts)

FileName(i, same) == IF same THEN <<102>> ELSE <<102, 48 + i>>
FileHashRaw(i) == [j \in 1..20 |-> (i * 40 + j * 3) % 256]

\* Base URLs carried in custom fields.
\* "http://h/b"
UrlGood == <<104, 116, 116, 112, 58, 47, 47, 104, 47, 98>>
\* "HTTP://H/b"
UrlUpper == <<72, 84, 84, 80, 58, 47, 47, 72, 47, 98>>
\* "h/b"
UrlRelative == <<104, 47, 98>>
\* "http://h/b,http://g/c"
UrlCsv == <<104, 116, 116, 112, 58, 47, 47, 104, 47, 98, 44,
            104, 116, 116, 112, 58, 47, 47, 103, 47, 99>>

\* What an input manifest varies in.
Plain == [stored |-> 1, dv |-> 0, fmv |-> 0, level |-> 18, isfile |-> 0,
          build |-> <<>>, utf16 |-> FALSE, md5 |-> 0, sameNames |-> FALSE,
          self |-> 28, slack |-> 0, goodDigest |-> TRUE, custom |-> <<>>]

\* A manifest with a base URL, and the same manifest with four unknown bytes
\* at the end of every chunk part (self-size 32).
LinkedVariant == [Plain EXCEPT !.fmv = 2, !.md5 = 1, !.level = 14,
                               !.custom = <<<<KeySourceURL, UrlGood>>>>]
GrownVariant == [LinkedVariant EXCEPT !.self = 32]

Variants == {
    Plain,
    LinkedVariant,
    GrownVariant,
    [Plain EXCEPT !.stored = 0],
    [Plain EXCEPT !.stored = 0, !.goodDigest = FALSE],
    [Plain EXCEPT !.goodDigest = FALSE],
    [Plain EXCEPT !.dv = 1, !.build = <<98>>, !.level = 2],
    [Plain EXCEPT !.dv = 2, !.isfile = 1, !.fmv = 1, !.level = 5, !.utf16 = TRUE],
    [Plain EXCEPT !.custom = <<<<KeyBaseUrl, UrlCsv>>>>, !.sameNames = TRUE],
    [Plain EXCEPT !.custom = <<<<KeySourceURL, <<>> >>>>],
    [Plain EXCEPT !.custom = <<<<KeySourceURL, UrlUpper>>>>, !.level = 6],
    [Plain EXCEPT !.custom = <<<<KeyBaseUrl, UrlRelative>>>>, !.level = 3],
    [Plain EXCEPT !.custom = <<<<KeyDownloadedManifestHash, <<120>> >>,
                               <<KeySourceURL, UrlGood>>>>, !.level = 15]}

\* The payload (the four sections) of an input manifest with variant v, nch
\* chunks and nfi files.
WirePayload(v, nch, nfi) ==
    LET str(t) == IF v.utf16 THEN WireString16(t) ELSE WireString(t)
        meta == <<v.dv>> \o WireU32(v.level) \o <<v.isfile>> \o WireU32(9)
                \o str(<<97>>) \o WireString(<<118>>) \o WireString(<<101>>)
                \o WireString(<<>>)
                \o WireU32(1) \o WireString(<<112>>)
                \o WireString(<<>>) \o WireString(<<>>) \o WireString(<<>>)
                \o (IF v.dv >= 1 THEN WireString(v.build) ELSE <<>>)
                \o (IF v.dv >= 2 THEN WireString(<<117>>) \o WireString(<<>>)
                    ELSE <<>>)
        chunksec == <<0>> \o WireU32(nch)
                \o Concat([i \in 1..nch |-> GuidRaw(i)])
                \o Concat([i \in 1..nch |-> HashRaw(i)])
                \o Concat([i \in 1..nch |-> ShaRaw(i)])
                \o [i \in 1..nch |-> GroupRaw(i)]
                \o Concat([i \in 1..nch |-> WireU32(i)])
                \o Concat([i \in 1..nch |-> SizeRaw(i)])
        part(i, j) == WireU32(v.self) \o GuidRaw(PartChunk(i, j, nch))
                \o WireU32(j) \o WireU32(4 * j) \o Zeros(v.self - 28)
        filesec == <<v.fmv>> \o WireU32(nfi)
                \o Concat([i \in 1..nfi |-> WireString(FileName(i, v.sameNames))])
                \o Concat([i \in 1..nfi |-> WireString(<<>>)])
                \o Concat([i \in 1..nfi |-> FileHashRaw(i)])
                \o [i \in 1..nfi |-> 0]
                \o Concat([i \in 1..nfi |-> WireU32(0)])
                \o Concat([i \in 1..nfi |->
                      WireU32(NParts(i))
                      \o Concat([j \in 1..NParts(i) |-> part(i, j)])])
                \o (IF v.fmv >= 1
                    THEN Concat([i \in 1..nfi |->
                             WireU32(v.md5) \o (IF v.md5 # 0 THEN Zeros(16) ELSE <<>>)])
                         \o Concat([i \in 1..nfi |-> WireString(<<109>>)])
                    ELSE <<>>)
                \o (IF v.fmv >= 2 THEN Concat([i \in 1..nfi |-> Zeros(32)])
                    ELSE <<>>)
        customsec == <<0>> \o WireU32(Len(v.custom))
                \o Concat([i \in 1..Len(v.custom) |-> WireString(v.custom[i][1])])
                \o Concat([i \in 1..Len(v.custom) |-> WireString(v.custom[i][2])])
    IN  WireSection(meta \o Zeros(v.slack)) \o WireSection(chunksec)
        \o WireSection(filesec) \o WireSection(customsec)

\* The input manifest: the 41-byte header and the payload, raw or zlib.
WireManifest(v, nch, nfi) ==
    LET Wire(payload, body) ==
            Magic \o WireU32(41) \o WireU32(Len(payload)) \o WireU32(Len(body))
            \o (IF v.goodDigest THEN Sha1(payload) ELSE Zeros(20))
            \o <<v.stored>> \o WireU32(18) \o body
        Stored(payload) ==
            Wire(payload, IF v.stored = 0 THEN payload ELSE ZlibEncode(payload))
    IN  Stored(WirePayload(v, nch, nfi))

BinaryInputs ==
    {WireManifest(v, nch, nfi) : v \in Variants, nch \in 0..MaxChunks,
                                 nfi \in 0..MaxFiles}

\* A zlib manifest with one byte of its compressed payload complemented.
FlipAt(buf, i) == [buf EXCEPT ![i] = 255 - buf[i]]
FlipBase == WireManifest(Plain, 0, 0)
Flips(buf) == {FlipAt(buf, i) : i \in 42..Len(buf)}
FlippedInputs == Flips(FlipBase)

\* A raw manifest cut short: every proper prefix.
CutBase ==
    WireManifest([Plain EXCEPT !.stored = 0, !.dv = 2, !.fmv = 2, !.md5 = 1,
                               !.custom = <<<<KeySourceURL, UrlGood>>>>], 1, 1)
Cuts(buf) == {SubSeq(buf, 1, n) : n \in 0..(Len(buf) - 1)}
CutInputs == Cuts(CutBase)


\* The blob text of little-endian bytes: three decimal digits for each.
Blob(bytes) ==
    [i \in 1..(3 * Len(bytes)) |->
        PadLeft(DecDigits(bytes[(i + 2) \div 3]), 3, ChZero)[((i - 1) % 3) + 1]]

\* What a JSON input manifest varies in.
PlainDoc == [upper |-> TRUE, bigHash |-> FALSE, groups |-> TRUE,
             hashList |-> TRUE, appId |-> Blob(<<9, 0, 0, 0>>),
             level |-> 18, custom |-> None]

\* The documents with the content of the binary manifests Plain and
\* LinkedVariant: GUIDs in uppercase, as Epic's JSON manifests write them,
\* and in lowercase, as from_vec renders them.
LowerDoc == [PlainDoc EXCEPT !.upper = FALSE]
LinkedDoc == [PlainDoc EXCEPT !.custom = Some(<<<<KeySourceURL, UrlGood>>>>),
                              !.level = 14]

DocVariants == {
    PlainDoc,
    LowerDoc,
    LinkedDoc,
    [PlainDoc EXCEPT !.bigHash = TRUE,
                     !.custom = Some(<<<<KeyBaseUrl, UrlCsv>>>>)],
    [PlainDoc EXCEPT !.groups = FALSE, !.level = 2,
                     !.custom = Some(<<<<KeyBaseUrl, UrlGood>>>>)],
    [PlainDoc EXCEPT !.hashList = FALSE],
    [PlainDoc EXCEPT !.appId = <<49, 50>>],
    [PlainDoc EXCEPT !.upper = FALSE,
                     !.custom = Some(<<<<KeyDownloadedManifestHash, <<120>> >>,
                                       <<KeySourceURL, <<>> >>>>)]}

\* The JSON input manifest with variant v, nch chunks and nfi files. The
\* rolling hash of a bigHash document has a ninth group: it is 2^64 or more.
JsonDoc(v, nch, nfi) ==
    LET guid(i) == IF v.upper THEN ToUpper(GuidText(i)) ELSE GuidText(i)
    IN  [ManifestFileVersion |-> Blob(WireU32(v.level)),
         bIsFileData |-> FALSE,
         AppID |-> v.appId,
         AppNameString |-> <<97>>,
         BuildVersionString |-> <<118>>,
         LaunchExeString |-> <<101>>,
         LaunchCommand |-> <<>>,
         PrereqName |-> <<>>,
         PrereqPath |-> <<>>,
         PrereqArgs |-> <<>>,
         FileManifestList |-> [i \in 1..nfi |->
             [Filename |-> FileName(i, FALSE),
              FileHash |-> Blob(FileHashRaw(i)),
              FileChunkParts |-> [j \in 1..NParts(i) |->
                  [Guid |-> guid(PartChunk(i, j, nch)),
                   Offset |-> Blob(WireU32(j)),
                   Size |-> Blob(WireU32(4 * j))]]]],
         ChunkHashList |->
             IF v.hashList
             THEN Some([i \in 1..nch |->
                     <<guid(i), Blob(HashRaw(i))
                                \o (IF v.bigHash THEN Blob(<<1>>) ELSE <<>>)>>])
             ELSE None,
         ChunkShaList |->
             Some([i \in 1..nch |-> <<guid(i), HexBytesInOrder(ShaRaw(i), TRUE)>>]),
         DataGroupList |->
             IF v.groups THEN [i \in 1..nch |-> <<guid(i), Blob(<<GroupRaw(i)>>)>>]
             ELSE <<>>,
         ChunkFilesizeList |-> [i \in 1..nch |-> <<guid(i), Blob(SizeRaw(i))>>],
         CustomFields |-> v.custom]

JsonDocs == {JsonDoc(v, nch, nfi) : v \in DocVariants, nch \in 0..MaxChunks,
                                    nfi \in 0..MaxFiles}

\* A document without ChunkShaList (the member is optional), and one whose
\* chunk is named by a text that is not hex.
ShalessDoc == [JsonDoc(PlainDoc, 2, 1) EXCEPT !.ChunkShaList = None]
NamedDoc ==
    [JsonDoc(PlainDoc, 1, 0) EXCEPT
        !.ChunkHashList = Some(<<<<<<99, 104, 117, 110, 107>>, Blob(HashRaw(1))>>>>)]

\* The JSON texts of the model, each with its document.
DocTexts == {<<JsonText(d), d>> : d \in JsonDocs \cup {ShalessDoc, NamedDoc}}

JsonInputs == {p[1] : p \in {q \in DocTexts : q[2] \in JsonDocs}}

\* Buffers that are neither: empty, shorter than the magic, "{}", bytes.
OtherInputs == {<<>>, <<123>>, <<12, 192, 190>>, <<123, 125>>, <<1, 2, 3, 4, 5>>}

Inputs == BinaryInputs \cup FlippedInputs \cup CutInputs \cup JsonInputs
          \cup OtherInputs

\* serde_json::from_slice::<DownloadManifest>(data) (274): [ok, err, v]. The
\* text of a document decodes to its manifest; every other buffer of the
\* model is not a JSON manifest, which is Err.
from_slice(data, checks) ==
    LET Decoded(hits) ==
            IF hits = {} THEN [ok |-> TRUE, err |-> TRUE]
            ELSE Deserialize((CHOOSE p \in hits : TRUE)[2], checks)
    IN  Decoded({p \in DocTexts : p[1] = data})

\* `format!("{:x}", hash)` of the SHA-1 of the input (270, 278, 287).
HashText(data) == HexBytesInOrder(Sha1(data), FALSE)

\* DownloadManifest::parse (267-291): [ok, v] with v = None or Some(manifest);
\* ok = FALSE when from_vec or a deserializer panics.
parse(data, checks) ==
    LET Json(json) ==
            IF ~json.ok THEN Panic
            ELSE IF json.err THEN Ok(None)
            ELSE Ok(Some(set_custom_field(json.v, KeyDownloadedManifestHash,
                                          HashText(data))))
        Binary(bin) ==
            IF ~bin.ok THEN Panic
            ELSE IF IsSome(bin.v)
            THEN Ok(Some(set_custom_field(bin.v.v, KeyDownloadedManifestHash,
                                          HashText(data))))
            ELSE Json(from_slice(data, checks))
    IN  Binary(from_vec(data, checks))


(***************************************************************************)
(* The sizes of a manifest (download_manifest.rs 249-264, 1006-1011).      *)
(***************************************************************************)
RECURSIVE SumU128(_, _, _)
\* The sum of a sequence of u128 numbers from total on: `total += size` and
\* `.sum::<u128>()` panic on overflow under overflow checks and wrap
\* without them.
SumU128(nums, total, checks) ==
    LET Added(sum) ==
            IF Len(sum) > U128Bytes /\ checks THEN Panic
            ELSE SumU128(Tail(nums), Norm(LeBytes(sum, U128Bytes)), checks)
    IN  IF nums = <<>> THEN Ok(total)
        ELSE Added(AddNum(total, Head(nums)))

\* FileManifestList::size: the sum of the sizes of the parts.
FileManifestList_size(file, checks) ==
    SumU128([j \in 1..Len(file.file_chunk_parts) |-> file.file_chunk_parts[j].size],
            <<>>, checks)

\* DownloadManifest::total_size: the sum of the sizes of the files.
total_size(m, checks) ==
    LET Total(sizes) ==
            IF ~AllOk(sizes) THEN Panic
            ELSE SumU128([i \in 1..Len(sizes) |-> sizes[i].v], <<>>, checks)
    IN  Total([i \in 1..Len(m.file_manifest_list) |->
                  FileManifestList_size(m.file_manifest_list[i], checks)])

RECURSIVE ValuesOf(_, _)
\* The values of a map at a set of keys, as a sequence in some order.
ValuesOf(map, keys) ==
    IF keys = {} THEN <<>>
    ELSE LET Rest(k) == <<map[k]>> \o ValuesOf(map, keys \ {k})
         IN  Rest(CHOOSE k \in keys : TRUE)

\* DownloadManifest::total_download_size: the sum of the chunk file sizes.
total_download_size(m, checks) ==
    SumU128(ValuesOf(m.chunk_filesize_list, DOMAIN m.chunk_filesize_list),
            <<>>, checks)

(***************************************************************************)
(* UserData (account.rs 36-157): seventeen optional fields. A field is     *)
(* None or Some(value); the values are small numbers standing for the      *)
(* strings, integers, times and booleans of the fields.                    *)
(***************************************************************************)
UserFields == {"access_token", "expires_in", "expires_at", "token_type",
               "refresh_token", "refresh_expires", "refresh_expires_at",
               "account_id", "client_id", "internal_client", "client_service",
               "display_name", "app", "in_app_id", "device_id",
               "error_message", "error_code"}

\* UserData::new(): every field None.
UserData_new == [f \in UserFields |-> None]

\* UserData::update replacing every field, present in new or not.
update_replacing(self, new) == new

\* UserData::update(&mut self, new): one `if let Some(n) = new.f
\* { self.f = Some(n) }` for each field.
update(self, new) ==
    [f \in UserFields |-> IF IsSome(new[f]) THEN Some(new[f].v) ELSE self[f]]


(***************************************************************************)
(* The program around one manifest: a caller hands a buffer to parse       *)
(* (egs.rs 128, fab.rs 87), may set custom fields on the manifest          *)
(* it gets, asks for files(), or writes the manifest with to_vec and       *)
(* parses the bytes again. A panic ends the run.                           *)
(***************************************************************************)
VARIABLES
    data,       \* the buffer handed to parse
    checks,     \* the build: TRUE with overflow checks (debug), FALSE without
    pc,         \* "start", "parsed", "aborted"
    parsed,     \* the outcome of parse(data), NotCalled before
    manifest,   \* the manifest the caller holds: None or Some(m)
    sets,       \* the number of set_custom_field calls so far
    links,      \* what download_links gave the last files(), or NotCalled
    view,       \* the outcome of the last files() on manifest, or NotCalled
    answer,     \* what the last total_size(), total_download_size() or
                \* custom_field() on manifest gave, or NotCalled
    encoded,    \* the outcome of to_vec on manifest, or NotCalled
    reparsed,   \* the outcome of parse on the bytes of encoded, or NotCalled
    blob,       \* the text handed to blob_to_num and bigblob_to_num
    blob_num,   \* the outcome of blob_to_num(blob), or NotCalled
    blob_big,   \* the outcome of bigblob_to_num(blob), or NotCalled
    user_data,  \* the UserData the client holds
    before,     \* user_data before the last update
    arg,        \* the argument of the last update, or NotCalled
    prev_arg,   \* the argument of the update before the last, or NotCalled
    updates,    \* the number of update calls so far
    read_buffer,   \* the buffer handed to the read_* functions of utils.rs
    read_position, \* the cursor into read_buffer
    read_result,   \* the outcome of the last read_* call, or NotCalled
    written,       \* the string handed to write_fstring, or NotCalled
    now,        \* the clock (Utc::now()), in seconds
    call,       \* the last call that talked to the account service, with
                \* the requests it sent, the answers and its outcome
    prev_call,  \* the call before the last, in short
    api,        \* "egs" (library_items) or "fab" (fab_library_items)
    server,     \* how the library service answers: its pages and which
                \* requests it fails
    cursor,     \* the cursor of the running library call: None or Some(c)
    records,    \* the pages the running library call has appended
    request,    \* the last page request of the call and how it ended
    returned    \* whether the library call has returned

manifestVars == <<data, checks, pc, parsed, manifest, sets, links, view, answer,
                  encoded, reparsed>>
blobVars == <<blob, blob_num, blob_big>>
userVars == <<user_data, before, arg, prev_arg, updates>>
readerVars == <<read_buffer, read_position, read_result, written>>
sessionVars == <<now, call, prev_call>>
pageVars == <<api, server, cursor, records, request, returned>>
vars == <<manifestVars, blobVars, userVars, readerVars, sessionVars, pageVars>>

NotCalled == [called |-> FALSE]
Called(outcome) == [called |-> TRUE, out |-> outcome]

\* The custom fields the caller sets after parse (egs.rs 144-178): BaseUrl is
\* the comma-separated list of the manifest URLs of the server's answer and
\* SourceURL the URL the buffer came from, both printed from parsed URLs.
SetValues == {<<KeySourceURL, UrlGood>>, <<KeyBaseUrl, UrlCsv>>}

\* No manifest work is going on: nothing was handed to parse.
NoManifest ==
    /\ pc = "idle"
    /\ data = <<>>
    /\ parsed = NotCalled
    /\ manifest = None
    /\ sets = 0
    /\ links = NotCalled
    /\ view = NotCalled
    /\ answer = NotCalled
    /\ encoded = NotCalled
    /\ reparsed = NotCalled

\* No blob was handed to the blob functions.
NoBlob == blob = <<>> /\ blob_num = NotCalled /\ blob_big = NotCalled

\* The client holds the UserData it was built with (EpicAPI::new).
NewUser ==
    /\ user_data = UserData_new
    /\ before = UserData_new
    /\ arg = NotCalled
    /\ prev_arg = NotCalled
    /\ updates = 0

\* Nothing was handed to the read_* and write_fstring functions.
NoReader ==
    /\ read_buffer = <<>>
    /\ read_position = 0
    /\ read_result = NotCalled
    /\ written = NotCalled

\* No call has talked to the account service.
NoSession == now = 0 /\ call = NotCalled /\ prev_call = NotCalled

\* No library call is running.
NoPages ==
    /\ api = "none"
    /\ server = <<>>
    /\ cursor = None
    /\ records = <<>>
    /\ request = NotCalled
    /\ returned = FALSE

\* Only the manifest (or only the blob, or only the user data) is at work.
OthersIdle == NoReader /\ NoSession /\ NoPages
otherVars == <<readerVars, sessionVars, pageVars>>

Init ==
    /\ data \in Inputs
    /\ checks \in BOOLEAN
    /\ pc = "start"
    /\ parsed = NotCalled
    /\ manifest = None
    /\ sets = 0
    /\ links = NotCalled
    /\ view = NotCalled
    /\ answer = NotCalled
    /\ encoded = NotCalled
    /\ reparsed = NotCalled
    /\ NoBlob
    /\ NewUser
    /\ OthersIdle

\* DownloadManifest::parse(data)
Parse ==
    /\ pc = "start"
    /\ parsed' = Called(parse(data, checks))
    /\ pc' = IF parsed'.out.ok THEN "parsed" ELSE "aborted"
    /\ manifest' = IF parsed'.out.ok THEN parsed'.out.v ELSE None
    /\ UNCHANGED <<data, checks, sets, links, view, answer, encoded, reparsed>>
    /\ UNCHANGED <<blobVars, userVars, otherVars>>

\* manifest.set_custom_field(key, value)
SetCustomField ==
    /\ pc = "parsed"
    /\ IsSome(manifest)
    /\ sets < MaxSets
    /\ encoded = NotCalled
    /\ \E kv \in SetValues :
          manifest' = Some(set_custom_field(manifest.v, kv[1], kv[2]))
    /\ sets' = sets + 1
    /\ links' = NotCalled
    /\ view' = NotCalled
    /\ answer' = NotCalled
    /\ UNCHANGED <<data, checks, pc, parsed, encoded, reparsed>>
    /\ UNCHANGED <<blobVars, userVars, otherVars>>

\* manifest.files(), which starts with download_links()
Files ==
    /\ pc = "parsed"
    /\ IsSome(manifest)
    /\ view = NotCalled
    /\ encoded = NotCalled
    /\ links' = Called(download_links(manifest.v))
    /\ view' = Called(files(manifest.v))
    /\ pc' = IF view'.out.ok THEN "parsed" ELSE "aborted"
    /\ UNCHANGED <<data, checks, parsed, manifest, sets, answer, encoded, reparsed>>
    /\ UNCHANGED <<blobVars, userVars, otherVars>>

\* manifest.total_size()
TotalSize ==
    /\ pc = "parsed"
    /\ IsSome(manifest)
    /\ answer = NotCalled
    /\ encoded = NotCalled
    /\ answer' = Called([of |-> "total_size",
                         result |-> total_size(manifest.v, checks)])
    /\ pc' = IF answer'.out.result.ok THEN "parsed" ELSE "aborted"
    /\ UNCHANGED <<data, checks, parsed, manifest, sets, links, view, encoded,
                   reparsed>>
    /\ UNCHANGED <<blobVars, userVars, otherVars>>

\* manifest.total_download_size()
TotalDownloadSize ==
    /\ pc = "parsed"
    /\ IsSome(manifest)
    /\ answer = NotCalled
    /\ encoded = NotCalled
    /\ answer' = Called([of |-> "total_download_size",
                         result |-> total_download_size(manifest.v, checks)])
    /\ pc' = IF answer'.out.result.ok THEN "parsed" ELSE "aborted"
    /\ UNCHANGED <<data, checks, parsed, manifest, sets, links, view, encoded,
                   reparsed>>
    /\ UNCHANGED <<blobVars, userVars, otherVars>>

\* manifest.custom_field(key)
CustomField ==
    /\ pc = "parsed"
    /\ IsSome(manifest)
    /\ answer = NotCalled
    /\ encoded = NotCalled
    /\ \E key \in {KeySourceURL, KeyBaseUrl, KeyDownloadedManifestHash} :
          answer' = Called([of |-> "custom_field",
                            result |-> Ok(custom_field(manifest.v, key))])
    /\ UNCHANGED <<data, checks, pc, parsed, manifest, sets, links, view,
                   encoded, reparsed>>
    /\ UNCHANGED <<blobVars, userVars, otherVars>>

\* manifest.to_vec(), under one of the iteration orders of its maps
ToVec ==
    /\ pc = "parsed"
    /\ IsSome(manifest)
    /\ encoded = NotCalled
    /\ \E ord \in Orders(manifest.v) : encoded' = Called(to_vec(manifest.v, ord))
    /\ pc' = IF encoded'.out.ok THEN "parsed" ELSE "aborted"
    /\ UNCHANGED <<data, checks, parsed, manifest, sets, links, view, answer,
                   reparsed>>
    /\ UNCHANGED <<blobVars, userVars, otherVars>>

\* DownloadManifest::parse of the bytes to_vec gave
Reparse ==
    /\ pc = "parsed"
    /\ encoded # NotCalled
    /\ reparsed = NotCalled
    /\ reparsed' = Called(parse(encoded.out.v, checks))
    /\ pc' = IF reparsed'.out.ok THEN "parsed" ELSE "aborted"
    /\ UNCHANGED <<data, checks, parsed, manifest, sets, links, view, answer,
                   encoded>>
    /\ UNCHANGED <<blobVars, userVars, otherVars>>

\* Reading manifests and deriving their links.
Next == Parse \/ SetCustomField \/ Files

Spec == Init /\ [][Next]_vars

\* Writing the manifests that were read and reading them back.
NextRoundTrip == Parse \/ ToVec \/ Reparse

SpecRoundTrip == Init /\ [][NextRoundTrip]_vars


(***************************************************************************)
(* What the states say about the calls made so far.                        *)
(***************************************************************************)
\* The buffer starts with the magic of a binary manifest.
HasMagic(buf) == Len(buf) >= 4 /\ SubSeq(buf, 1, 4) = Magic

\* parse was called and returned a manifest, returned None, or panicked.
Returned == parsed # NotCalled /\ parsed.out.ok /\ IsSome(parsed.out.v)
Absent == parsed # NotCalled /\ parsed.out.ok /\ ~IsSome(parsed.out.v)
Aborted == parsed # NotCalled /\ ~parsed.out.ok

\* A map without one key.
Without(map, key) == [k \in (DOMAIN map) \ {key} |-> map[k]]

\* A manifest without its DownloadedManifestHash.
Unstamped(m) ==
    [m EXCEPT !.custom_fields =
        IF IsSome(m.custom_fields)
        THEN Some(Without(m.custom_fields.v, KeyDownloadedManifestHash))
        ELSE None]

(***************************************************************************)
(* Claims about the round trip (SpecRoundTrip).                            *)
(***************************************************************************)
\* C1: for every manifest M that parse returned, to_vec(M) gives bytes and
\* parse of those bytes returns a manifest equal to M in every field but
\* the value of DownloadedManifestHash (maps are compared as maps, so the
\* order of the custom-field keys does not count).
C1_RoundTrip ==
    /\ encoded # NotCalled => encoded.out.ok
    /\ reparsed # NotCalled =>
          /\ reparsed.out.ok
          /\ IsSome(reparsed.out.v)
          /\ Unstamped(reparsed.out.v.v) = Unstamped(manifest.v)

\* A manifest was read and written, and reading it back panicked.
C1_ReadBackAborts ==
    /\ Returned
    /\ encoded # NotCalled
    /\ encoded.out.ok
    /\ reparsed # NotCalled
    /\ ~reparsed.out.ok


(***************************************************************************)
(* Claims about reading a buffer (Spec).                                   *)
(***************************************************************************)
\* The 20-byte digest at header bytes 16..36.
HeaderDigest(buf) == SubSeq(buf, 17, 36)

\* The bytes after the 41-byte header.
Body(buf) == SubSeq(buf, 42, Len(buf))

\* A binary buffer whose stored-as flag says zlib.
Compressed(buf) == HasMagic(buf) /\ Len(buf) >= 41 /\ buf[37] # 0

\* The compressed payload does not inflate to data with the header's digest.
IntegrityFails(buf) ==
    LET Differs(z) == ~z.ok \/ Sha1(z.v) # HeaderDigest(buf)
    IN  Compressed(buf) /\ Differs(ZlibDecode(Body(buf)))

\* C2: if a buffer starts with the binary magic and its payload, after zlib
\* decompression, does not hash to the digest of the header (for example
\* after one byte of the compressed payload was flipped), parse returns
\* None: neither a manifest nor a panic.
C2_IntegrityFailureIsAbsent ==
    parsed # NotCalled /\ IntegrityFails(data) => Absent

\* A buffer failed the integrity test and parse panicked.
C2_IntegrityFailureAborts == IntegrityFails(data) /\ Aborted

\* The payload of a binary buffer after decompression: [ok, v].
PayloadOf(buf) ==
    IF buf[37] = 0 THEN Ok(Body(buf)) ELSE ZlibDecode(Body(buf))

\* C3: for every buffer parse accepts by the binary path, the digest of the
\* header is the SHA-1 of the payload after decompression, with the
\* stored-as flag 1 (zlib) and with the flag 0 (raw).
C3_DigestIsSha1OfPayload ==
    LET Matches(p) == p.ok /\ HeaderDigest(data) = Sha1(p.v)
    IN  Returned /\ HasMagic(data) => Matches(PayloadOf(data))

\* A raw manifest was accepted whose digest is not the SHA-1 of its payload.
C3_RawAcceptedUnchecked ==
    /\ Returned
    /\ HasMagic(data)
    /\ data[37] = 0
    /\ HeaderDigest(data) # Sha1(Body(data))

\* buf starts with the magic and is whole cut short before its end.
CutShort(buf, whole) ==
    HasMagic(buf) /\ Len(buf) < Len(whole) /\ buf = SubSeq(whole, 1, Len(buf))

\* C4: for every buffer that starts with the binary magic and ends before
\* the fields its header and sections announce, parse returns None: it does
\* not panic and returns no manifest.
C4_TruncatedIsAbsent ==
    parsed # NotCalled /\ CutShort(data, CutBase) => Absent

\* parse panicked on a manifest cut short.
C4_TruncatedAborts == CutShort(data, CutBase) /\ Aborted

\* What parse returned is what the JSON decoder gave for the buffer: the
\* decoded manifest (stamped), or None when the decoder gave none.
AgreesWith(json) ==
    IF json.ok /\ ~json.err
    THEN Returned /\ Unstamped(parsed.out.v.v) = Unstamped(json.v)
    ELSE Absent

\* C5: for every buffer whose first four bytes are not the magic, buffers
\* shorter than four bytes included, parse returns the outcome of the JSON
\* decoder on the whole buffer: the decoded manifest when the buffer is a
\* valid JSON manifest, None otherwise.
C5_JsonFallback ==
    parsed # NotCalled /\ ~HasMagic(data) => AgreesWith(from_slice(data, checks))

\* parse panicked on a buffer shorter than four bytes.
C5_ShortBufferAborts == Len(data) < 4 /\ Aborted

IsLowerHex(c) == (c >= 48 /\ c <= 57) \/ (c >= 97 /\ c <= 102)

\* The text is the 40 lowercase hex digits of the digest.
IsHexOf(text, digest) ==
    /\ Len(text) = 40
    /\ \A i \in 1..40 : IsLowerHex(text[i])
    /\ HexPairs(text) = digest

\* C6: whenever parse returns a manifest, by the binary or the JSON path,
\* custom_field("DownloadedManifestHash") is the lowercase hex SHA-1 of the
\* whole input buffer as received, whatever the manifest's own custom
\* fields carried under that key.
C6_StampIsSha1OfInput ==
    LET Stamped(field) == IsSome(field) /\ IsHexOf(field.v, Sha1(data))
    IN  Returned =>
            Stamped(custom_field(parsed.out.v.v, KeyDownloadedManifestHash))

\* What the binary manifest in the buffer carries under a key.
CarriedField(buf, chk, key) ==
    LET Field(bin) ==
            IF bin.ok /\ IsSome(bin.v) THEN custom_field(bin.v.v, key) ELSE None
    IN  IF HasMagic(buf) THEN Field(from_vec(buf, chk)) ELSE None

\* parse returned a manifest whose buffer carried another value under
\* DownloadedManifestHash, and the value was replaced.
C6_CarriedStampReplaced ==
    /\ Returned
    /\ IsSome(CarriedField(data, checks, KeyDownloadedManifestHash))
    /\ custom_field(parsed.out.v.v, KeyDownloadedManifestHash)
         # CarriedField(data, checks, KeyDownloadedManifestHash)


(***************************************************************************)
(* Claims about the links and the file view (Spec).                        *)
(***************************************************************************)
\* files() ran and download_links gave it a map (a base URL was set).
LinksGiven == links # NotCalled /\ links.out.ok /\ IsSome(links.out.v)

\* The base URL as the claims name it: SourceURL, else the first entry of
\* BaseUrl.
ClaimBase(m) ==
    IF IsSome(custom_field(m, KeySourceURL)) THEN custom_field(m, KeySourceURL).v
    ELSE FirstOfCsv(custom_field(m, KeyBaseUrl).v)

\* The directory of a feature level.
ClaimDir(level) ==
    IF level >= 15 THEN <<67, 104, 117, 110, 107, 115, 86, 52>>
    ELSE IF level >= 6 THEN <<67, 104, 117, 110, 107, 115, 86, 51>>
    ELSE IF level >= 3 THEN <<67, 104, 117, 110, 107, 115, 86, 50>>
    ELSE <<67, 104, 117, 110, 107, 115>>

\* A number below 65536 in decimal, with zeros in front up to two digits.
TwoDigits(num) == PadLeft(DecDigits(Small(num)), 2, ChZero)

\* A number in uppercase hex with zeros in front up to 16 digits; with
\* exact = TRUE the 16 lowest digits, whatever the number.
Hex16(num, exact) ==
    LET Lowest(d) ==
            IF exact /\ Len(d) > 16 THEN SubSeq(d, Len(d) - 15, Len(d)) ELSE d
    IN  Lowest(PadLeft(HexDigits(num, TRUE), 16, ChZero))

\* "/" dir "/" D "/" H "_" G ".chunk" for chunk g of manifest m.
LinkTail(m, g, exact) ==
    <<47>> \o ClaimDir(Small(m.manifest_file_version))
    \o <<47>> \o TwoDigits(m.data_group_list[g])
    \o <<47>> \o Hex16(m.chunk_hash_list[g], exact)
    \o <<95>> \o ToUpper(g) \o <<46, 99, 104, 117, 110, 107>>

\* A base URL "scheme://host/path" with its scheme and host in lowercase.
LowerSchemeAndHost(base) ==
    LET Lowered(n) == ToLower(SubSeq(base, 1, n)) \o SubSeq(base, n + 1, Len(base))
        HostEnd(colon, slash) ==
            IF slash = 0 THEN Len(base) ELSE colon + 1 + slash
        After(colon) ==
            HostEnd(colon, IndexOf(SubSeq(base, colon + 3, Len(base)), 47))
    IN  Lowered(After(IndexOf(base, 58)))

GuidsOf(parts) == [j \in 1..Len(parts) |-> parts[j].guid]

\* File i is the last of the list with its name.
LastOfName(fl, i) == \A k \in (i + 1)..Len(fl) : fl[k].filename # fl[i].filename

\* In the view of manifest m, the parts of each file are its parts with a
\* GUID in keys, in order.
PartsLinked(m, v, keys) ==
    LET Kept(g) == g \in keys
    IN  \A i \in 1..Len(m.file_manifest_list) :
            LastOfName(m.file_manifest_list, i) =>
                GuidsOf(v[m.file_manifest_list[i].filename].file_chunk_parts)
                  = SelectSeq(GuidsOf(m.file_manifest_list[i].file_chunk_parts),
                              Kept)

ExpectedParts(parts, urls) ==
    LET Kept(p) == p.guid \in DOMAIN urls
        WithLinks(keep) ==
            [j \in 1..Len(keep) |->
                [keep[j] EXCEPT !.link = Some(urls[keep[j].guid])]]
    IN  WithLinks(SelectSeq(parts, Kept))

\* The view v of manifest m under the URL map urls: every filename, each
\* with the record of (the last) file of that name.
IsViewOf(v, m, urls) ==
    /\ DOMAIN v = {m.file_manifest_list[i].filename :
                      i \in 1..Len(m.file_manifest_list)}
    /\ \A i \in 1..Len(m.file_manifest_list) :
          LastOfName(m.file_manifest_list, i) =>
              v[m.file_manifest_list[i].filename]
                = [filename |-> m.file_manifest_list[i].filename,
                   file_hash |-> m.file_manifest_list[i].file_hash,
                   file_chunk_parts |->
                       ExpectedParts(m.file_manifest_list[i].file_chunk_parts,
                                     urls)]

\* Neither SourceURL nor BaseUrl is set.
NoBase(m) ==
    ~IsSome(custom_field(m, KeySourceURL)) /\ ~IsSome(custom_field(m, KeyBaseUrl))

\* What files() returned is the view the claim describes.
ViewIsRight ==
    /\ IsViewOf(view.out.v, manifest.v,
                IF IsSome(links.out.v) THEN links.out.v.v ELSE EmptyMap)
    /\ NoBase(manifest.v) =>
          /\ ~IsSome(links.out.v)
          /\ \A f \in DOMAIN view.out.v : view.out.v[f].file_chunk_parts = <<>>

\* C9: files() maps every filename of the file list to a record with the
\* same filename and file hash whose parts are that file's parts with a
\* GUID in the URL map, in order, with unchanged offset and size, each with
\* the URL of its GUID; without SourceURL and BaseUrl the URL map is empty
\* and files() still returns every filename, with no link.
C9_FilesView == view # NotCalled => view.out.ok /\ ViewIsRight

\* files() panicked on a manifest with files.
C9_FilesViewAborts ==
    /\ view # NotCalled
    /\ ~view.out.ok
    /\ manifest.v.file_manifest_list # <<>>

\* C10: files() returns a map and never panics, for every manifest and
\* every value of SourceURL and BaseUrl, the empty string and a text that is
\* not a URL included.
C10_FilesNeverAborts == view # NotCalled => view.out.ok

\* files() panicked on a manifest whose SourceURL is the empty string.
C10_EmptySourceUrlAborts ==
    /\ view # NotCalled
    /\ ~view.out.ok
    /\ custom_field(manifest.v, KeySourceURL) = Some(<<>>)


(***************************************************************************)
(* Claims about the manifests parse returns (Spec).                        *)
(***************************************************************************)
\* The GUIDs the chunk parts of the files of a manifest refer to.
PartGuids(m) ==
    UNION {{m.file_manifest_list[i].file_chunk_parts[j].guid :
                j \in 1..Len(m.file_manifest_list[i].file_chunk_parts)} :
           i \in 1..Len(m.file_manifest_list)}

\* The keys of the chunk SHA map: none when the map is absent.
ShaKeys(m) ==
    IF IsSome(m.chunk_sha_list) THEN DOMAIN m.chunk_sha_list.v ELSE {}

\* GUID g is a key of the four chunk maps of manifest m.
InAllMaps(m, g) ==
    /\ g \in DOMAIN m.chunk_hash_list
    /\ g \in ShaKeys(m)
    /\ g \in DOMAIN m.data_group_list
    /\ g \in DOMAIN m.chunk_filesize_list

\* C11: in every manifest parse returned, by the binary or the JSON path,
\* every chunk GUID a chunk part of a file refers to is a key of the chunk
\* hash map, of the chunk SHA map, of the data group map and of the chunk
\* file-size map.
C11_PartsReferToChunks ==
    Returned => \A g \in PartGuids(parsed.out.v.v) : InAllMaps(parsed.out.v.v, g)

\* parse returned a binary manifest with a chunk part whose GUID is in none
\* of the chunk maps.
C11_DanglingPartReturned ==
    /\ Returned
    /\ HasMagic(data)
    /\ \E g \in PartGuids(parsed.out.v.v) :
          /\ g \notin DOMAIN parsed.out.v.v.chunk_hash_list
          /\ g \notin ShaKeys(parsed.out.v.v)
          /\ g \notin DOMAIN parsed.out.v.v.data_group_list
          /\ g \notin DOMAIN parsed.out.v.v.chunk_filesize_list

\* The text is n lowercase hex digits.
IsLowerHexText(text, n) ==
    Len(text) = n /\ \A i \in 1..Len(text) : IsLowerHex(text[i])

\* The GUIDs of a manifest: the keys of its chunk maps and the GUIDs of its
\* chunk parts.
AllGuids(m) ==
    (DOMAIN m.chunk_hash_list) \cup ShaKeys(m) \cup (DOMAIN m.data_group_list)
    \cup (DOMAIN m.chunk_filesize_list) \cup PartGuids(m)

\* The chunk SHAs of a manifest.
ChunkShas(m) == {m.chunk_sha_list.v[g] : g \in ShaKeys(m)}

\* The file hashes of a manifest.
FileHashes(m) ==
    {m.file_manifest_list[i].file_hash : i \in 1..Len(m.file_manifest_list)}

\* Every GUID of m is 32 lowercase hex digits.
GuidsWellFormed(m) == \A g \in AllGuids(m) : IsLowerHexText(g, 32)

\* Every file hash and chunk SHA of m is 40 lowercase hex digits.
HashesWellFormed(m) ==
    \A h \in FileHashes(m) \cup ChunkShas(m) : IsLowerHexText(h, 40)

\* C12: in every manifest parse returned, by the binary or the JSON path,
\* every chunk GUID (the keys of the chunk maps and the GUIDs of the chunk
\* parts) is exactly 32 lowercase hex characters, and every file hash and
\* every chunk SHA is exactly 40 lowercase hex characters.
C12_HexTextsWellFormed ==
    Returned =>
        GuidsWellFormed(parsed.out.v.v) /\ HashesWellFormed(parsed.out.v.v)

\* parse returned a JSON manifest whose GUIDs and chunk SHAs are in
\* uppercase, as the document wrote them.
C12_UpperCaseKeptFromJson ==
    /\ Returned
    /\ ~HasMagic(data)
    /\ \E g \in DOMAIN parsed.out.v.v.chunk_hash_list : g = ToUpper(g) /\ g # ToLower(g)
    /\ \E h \in ChunkShas(parsed.out.v.v) : ~IsLowerHexText(h, 40)


\* The manifests with four unknown bytes at the end of every chunk part,
\* each with the manifest without them: pairs <<grown, plain>>, for every
\* number of chunks and at least one file.
GrownPairs ==
    {<<WireManifest(GrownVariant, nch, nfi), WireManifest(LinkedVariant, nch, nfi)>> :
        nch \in 0..MaxChunks, nfi \in 1..MaxFiles}

\* The buffer is a grown manifest.
IsGrown(buf) == \E p \in GrownPairs : p[1] = buf

\* What files() gives for the manifest parse returns for a buffer.
FilesOfParse(buf, chk) ==
    LET View(r) ==
            IF r.ok /\ IsSome(r.v) THEN files(r.v.v) ELSE Panic
    IN  View(parse(buf, chk))

\* C13: a manifest in which every chunk part declares the self-size 32 and
\* carries four unknown bytes after its 28 bytes still parses: the reader
\* continues at part start + 32, and files() gives what it gives for the
\* manifest without those bytes.
C13_TrailingBytesSkipped ==
    parsed # NotCalled /\ HasMagic(data) =>
        \A p \in GrownPairs :
            data = p[1] =>
                /\ Returned
                /\ view # NotCalled /\ sets = 0 =>
                      view.out.ok /\ view.out = FilesOfParse(p[2], checks)

\* parse panicked on a grown manifest in a build with overflow checks.
C13_GrownAbortsWithChecks == checks /\ Aborted /\ IsGrown(data)


(***************************************************************************)
(* Claims about writing a manifest (SpecRoundTrip).                        *)
(***************************************************************************)
\* to_vec was called on the manifest and returned bytes.
Written == encoded # NotCalled /\ encoded.out.ok

\* The header of buf describes payload p, an outcome [ok, v] of inflating
\* the bytes after the header: digest, sizes and stored-as flag.
Describes(buf, p) ==
    /\ p.ok
    /\ HeaderDigest(buf) = Sha1(p.v)
    /\ SubSeq(buf, 9, 12) = LeBytes(NumOf(Len(p.v)), 4)
    /\ SubSeq(buf, 13, 16) = LeBytes(NumOf(Len(buf) - 41), 4)
    /\ buf[37] = 1

\* p is the four sections of manifest m under one of the iteration orders.
IsPayloadOf(p, m) ==
    p.ok /\ \E ord \in Orders(m) : PayloadBytes(m, ord) = Ok(p.v)

\* C14: the header to_vec writes describes the payload it writes: the
\* digest is the SHA-1 of the uncompressed four sections, the
\* uncompressed-size field their length, the compressed-size field the
\* number of bytes after the 41-byte header, the stored-as flag 1, and
\* those bytes inflate to the four sections.
C14_HeaderDescribesPayload ==
    LET Fits(buf, p) == Describes(buf, p) /\ IsPayloadOf(p, manifest.v)
    IN  Written => /\ Len(encoded.out.v) >= 41
                   /\ Fits(encoded.out.v, ZlibDecode(Body(encoded.out.v)))

\* to_vec wrote a manifest with two chunks, a file and a custom field.
C14_ManifestWritten ==
    /\ Written
    /\ Cardinality(DOMAIN manifest.v.chunk_hash_list) = 2
    /\ manifest.v.file_manifest_list # <<>>
    /\ IsSome(manifest.v.custom_fields)


\* C15: to_vec is deterministic: whatever order the maps of the manifest
\* are iterated in, it gives the same bytes, so two manifests that compare
\* equal encode to identical bytes.
C15_ToVecDeterministic ==
    Written => \A ord \in Orders(manifest.v) : to_vec(manifest.v, ord) = encoded.out

\* to_vec wrote a manifest that it writes to other bytes under another
\* iteration order of its chunk maps.
C15_OrderChangesBytes ==
    /\ Written
    /\ \E ord \in Orders(manifest.v) :
          /\ to_vec(manifest.v, ord).ok
          /\ to_vec(manifest.v, ord).v # encoded.out.v


(***************************************************************************)
(* Claims about the binary and the JSON form of one manifest (Spec).       *)
(***************************************************************************)
\* Binary manifests, each with the text of a JSON document of the same
\* content: triples <<binary, text, upper>>, upper telling whether the
\* document writes its GUIDs in uppercase.
EquivPairs ==
    {<<WireManifest(t[1], nch, nfi), JsonText(JsonDoc(t[2], nch, nfi)), t[2].upper>> :
        t \in {<<Plain, PlainDoc>>, <<Plain, LowerDoc>>, <<LinkedVariant, LinkedDoc>>},
        nch \in 0..MaxChunks, nfi \in 0..MaxFiles}

\* files() of the manifest parse returns for a buffer, once it has the
\* given custom fields (and so the same base URL).
FilesWithFields(buf, chk, fields) ==
    LET View(r) ==
            IF r.ok /\ IsSome(r.v)
            THEN files([r.v.v EXCEPT !.custom_fields = fields])
            ELSE Panic
    IN  View(parse(buf, chk))

\* files() was called and returned.
ViewReturned == IF view = NotCalled THEN FALSE ELSE view.out.ok

\* files() returned for the binary manifest of a pair of EquivPairs.
ViewOfBinary(p) == data = p[1] /\ view # NotCalled /\ view.out.ok

\* C16: for every binary manifest and the JSON document with the same
\* content, files() of the two parsed manifests are equal once both have
\* the same base URL: the same filenames and file hashes, and for each file
\* the same parts in order with the same GUID, offset, size and link.
C16_BinaryJsonEquivalent ==
    ViewReturned /\ HasMagic(data) =>
        \A p \in EquivPairs :
            ViewOfBinary(p) =>
                view.out = FilesWithFields(p[2], checks, manifest.v.custom_fields)

\* files() of a binary manifest with a linked part differs from files() of
\* the JSON document of the same content with uppercase GUIDs.
C16_UpperCaseGuidDiffers ==
    /\ ViewReturned
    /\ LinksGiven
    /\ \E f \in DOMAIN view.out.v : view.out.v[f].file_chunk_parts # <<>>
    /\ \E p \in EquivPairs :
          /\ ViewOfBinary(p)
          /\ p[3]
          /\ view.out # FilesWithFields(p[2], checks, manifest.v.custom_fields)


(***************************************************************************)
(* The blob functions on their own: a text is handed to blob_to_num and    *)
(* bigblob_to_num (utils.rs 9-34), and may grow by "000" groups.           *)
(***************************************************************************)
\* The most groups of a text.
MaxGroups == 18

\* The most groups of a text that is built from the groups below.
MaxMixed == 3

\* Groups that are three digits in 000..255: "000", "001", "165", "255".
GoodGroups == {<<48, 48, 48>>, <<48, 48, 49>>, <<49, 54, 53>>, <<50, 53, 53>>}

\* Groups that do not parse as a number: "abc", "-01", "1 2".
BadGroups == {<<97, 98, 99>>, <<45, 48, 49>>, <<49, 32, 50>>}

\* n times the group.
Repeated(group, n) == [i \in 1..(3 * n) |-> group[((i - 1) % 3) + 1]]

RECURSIVE TextsOf(_, _)
\* The texts of n groups, each from the set.
TextsOf(groups, n) ==
    IF n = 0 THEN {<<>>}
    ELSE {g \o t : g \in groups, t \in TextsOf(groups, n - 1)}

\* The texts handed to the blob functions: up to MaxMixed good groups; one
\* bad group among good ones; long texts of one group; the blob of the
\* unit test; a text that ends inside a group.
BlobTexts ==
    UNION {TextsOf(GoodGroups, n) : n \in 0..MaxMixed}
    \cup {a \o b \o c : a \in TextsOf(GoodGroups, 0) \cup TextsOf(GoodGroups, 1),
                        b \in BadGroups,
                        c \in TextsOf(GoodGroups, 0) \cup TextsOf(GoodGroups, 1)}
    \cup {Repeated(g, n) : g \in {<<48, 48, 49>>, <<50, 53, 53>>},
                           n \in (MaxGroups - 3)..MaxGroups}
    \cup {<<49, 54, 53, 48, 52, 53, 48, 48, 52, 48, 48, 48>>, <<49, 50>>}

InitBlob ==
    /\ blob \in BlobTexts
    /\ checks \in BOOLEAN
    /\ blob_num = NotCalled
    /\ blob_big = NotCalled
    /\ NoManifest
    /\ NewUser
    /\ OthersIdle

\* blob_to_num(blob)
BlobToNum ==
    /\ blob_num = NotCalled
    /\ blob_num' = Called(blob_to_num(blob, checks))
    /\ UNCHANGED <<blob, blob_big, manifestVars, userVars, otherVars>>

\* bigblob_to_num(blob)
BigBlobToNum ==
    /\ blob_big = NotCalled
    /\ blob_big' = Called(bigblob_to_num(blob))
    /\ UNCHANGED <<blob, blob_num, manifestVars, userVars, otherVars>>

\* The caller takes the text with one more "000" group.
AppendZeroGroup ==
    /\ Len(blob) + 3 <= 3 * MaxGroups
    /\ blob' = blob \o <<48, 48, 48>>
    /\ blob_num' = NotCalled
    /\ blob_big' = NotCalled
    /\ UNCHANGED <<manifestVars, userVars, otherVars>>

NextBlob == BlobToNum \/ BigBlobToNum \/ AppendZeroGroup

SpecBlob == InitBlob /\ [][NextBlob]_vars

(***************************************************************************)
(* Claims about the blob functions (SpecBlob).                             *)
(***************************************************************************)
\* The groups of a text of whole groups.
GroupsOf(text) == [i \in 1..(Len(text) \div 3) |-> SubSeq(text, 3 * i - 2, 3 * i)]

\* The group is three digits.
IsThreeDigits(g) == IsDigit(g[1]) /\ IsDigit(g[2]) /\ IsDigit(g[3])

\* The number three digits write.
DigitsValue(g) == 100 * (g[1] - 48) + 10 * (g[2] - 48) + (g[3] - 48)

\* The group is three digits in 000..255.
IsByteGroup(g) == IsThreeDigits(g) /\ DigitsValue(g) <= 255

\* The group does not parse as a number.
IsBadGroup(g) == ~IsThreeDigits(g) /\ ~(g[1] = 43 /\ IsDigit(g[2]) /\ IsDigit(g[3]))

\* The text is k groups, each three digits in 000..255.
IsByteText(text) ==
    Len(text) % 3 = 0 /\ \A i \in 1..(Len(text) \div 3) : IsByteGroup(GroupsOf(text)[i])

\* The little-endian number with group i at byte position i, a group that
\* is no byte counting 0, cut after the first `width` groups.
PlacedValue(text, width) ==
    LET Bytes(gs) ==
            [i \in 1..Min(Len(gs), width) |->
                IF IsByteGroup(gs[i]) THEN DigitsValue(gs[i]) ELSE 0]
    IN  Norm(Bytes(GroupsOf(text)))

RECURSIVE WithoutZeroGroups(_)
\* The text without the "000" groups at its end.
WithoutZeroGroups(text) ==
    IF Len(text) >= 3 /\ SubSeq(text, Len(text) - 2, Len(text)) = <<48, 48, 48>>
    THEN WithoutZeroGroups(SubSeq(text, 1, Len(text) - 3))
    ELSE text

\* C17: for a text of k groups b_0..b_(k-1), each three digits in 000..255,
\* blob_to_num returns the sum of b_i * 256^i over i < min(k, 16): the empty
\* text gives 0, "000" groups at the end change nothing, and bigblob_to_num
\* returns the same number when k <= 16.
C17_BlobIsLittleEndianSum ==
    IsByteText(blob) =>
        /\ blob_num # NotCalled =>
              /\ blob_num.out = Ok(PlacedValue(blob, U128Bytes))
              /\ blob_num.out = Ok(PlacedValue(WithoutZeroGroups(blob), U128Bytes))
              /\ blob = <<>> => blob_num.out = Ok(<<>>)
        /\ blob_num # NotCalled /\ blob_big # NotCalled /\ Len(blob) <= 3 * U128Bytes =>
              blob_big.out = blob_num.out

\* Both functions decoded a text of 17 groups whose last group is not "000"
\* and gave different numbers.
C17_SeventeenthGroupDropped ==
    /\ IsByteText(blob)
    /\ Len(blob) = 3 * (U128Bytes + 1)
    /\ WithoutZeroGroups(blob) = blob
    /\ blob_num # NotCalled
    /\ blob_big # NotCalled
    /\ blob_num.out # blob_big.out

\* Every group of the text is three digits in 000..255 or does not parse.
IsPlacedText(text) ==
    /\ Len(text) % 3 = 0
    /\ \A i \in 1..(Len(text) \div 3) :
          IsByteGroup(GroupsOf(text)[i]) \/ IsBadGroup(GroupsOf(text)[i])

\* C18: blob_to_num places the group that starts at index i at byte
\* position i/3 whatever the other groups are: a group that does not parse
\* counts 0 and does not move the groups after it, as if it were "000"; the
\* same holds for bigblob_to_num.
C18_GroupsKeepTheirPlace ==
    IsPlacedText(blob) =>
        /\ blob_num # NotCalled => blob_num.out = Ok(PlacedValue(blob, U128Bytes))
        /\ blob_big # NotCalled => blob_big.out = Ok(PlacedValue(blob, MaxGroups))

\* Both functions decoded a text with a group that does not parse before a
\* group that is not "000", and both put the later group one byte down.
C18_LaterGroupMovedDown ==
    /\ IsPlacedText(blob)
    /\ \E i \in 1..(Len(blob) \div 3) : IsBadGroup(GroupsOf(blob)[i])
    /\ blob_num # NotCalled
    /\ blob_big # NotCalled
    /\ blob_num.out # Ok(PlacedValue(blob, U128Bytes))
    /\ blob_big.out # Ok(PlacedValue(blob, MaxGroups))


(***************************************************************************)
(* The methods of one manifest: after parse the caller sets custom fields  *)
(* and calls files(), total_size(), total_download_size(), custom_field()  *)
(* and to_vec().                                                           *)
(***************************************************************************)
\* The buffers of this specification: binary and JSON manifests with and
\* without custom fields of their own.
FrameInputs ==
    {WireManifest(Plain, 0, 0), WireManifest(Plain, 1, 1),
     WireManifest(LinkedVariant, 1, 2),
     JsonText(JsonDoc(PlainDoc, 1, 1)), JsonText(JsonDoc(LowerDoc, 0, 1)),
     JsonText(JsonDoc(LinkedDoc, 1, 2))}

InitFrame ==
    /\ data \in FrameInputs
    /\ checks \in BOOLEAN
    /\ pc = "start"
    /\ parsed = NotCalled
    /\ manifest = None
    /\ sets = 0
    /\ links = NotCalled
    /\ view = NotCalled
    /\ answer = NotCalled
    /\ encoded = NotCalled
    /\ reparsed = NotCalled
    /\ NoBlob
    /\ NewUser
    /\ OthersIdle

NextFrame ==
    \/ Parse
    \/ SetCustomField
    \/ Files
    \/ TotalSize
    \/ TotalDownloadSize
    \/ CustomField
    \/ ToVec

SpecFrame == InitFrame /\ [][NextFrame]_vars

(***************************************************************************)
(* Claims about what changes a manifest (SpecFrame).                       *)
(***************************************************************************)
\* The custom fields of a manifest as a map: empty when it has none.
FieldsOf(m) == IF IsSome(m.custom_fields) THEN m.custom_fields.v ELSE EmptyMap

\* Manifest after is manifest m with the custom field key set to value:
\* the key gives the value, every other custom field and every other field
\* of the manifest is as it was.
IsSetIn(m, after, key, value) ==
    /\ custom_field(after, key) = Some(value)
    /\ IsSome(after.custom_fields)
    /\ DOMAIN after.custom_fields.v = (DOMAIN FieldsOf(m)) \cup {key}
    /\ \A k \in (DOMAIN FieldsOf(m)) \ {key} :
          custom_field(after, k) = custom_field(m, k)
    /\ [after EXCEPT !.custom_fields = m.custom_fields] = m

\* What the decoders gave parse for the buffer, before the stamp.
Decoded(buf, chk) ==
    IF HasMagic(buf) THEN from_vec(buf, chk).v.v ELSE from_slice(buf, chk).v

\* A step of a caller that holds a manifest: a set_custom_field step sets
\* one of the caller's fields, every other step leaves the manifest alone.
CallerStepFrames ==
    pc = "parsed" /\ IsSome(manifest) =>
        /\ manifest' # manifest =>
              /\ sets' = sets + 1
              /\ \E kv \in SetValues : IsSetIn(manifest.v, manifest'.v, kv[1], kv[2])
        /\ sets' = sets => manifest' = manifest

\* The step of parse that returns a manifest sets the stamp in what the
\* decoder gave, whether that had a custom-field map or none.
ParseStepFrames ==
    pc = "start" /\ pc' = "parsed" /\ IsSome(manifest') =>
        IsSetIn(Decoded(data, checks), manifest'.v, KeyDownloadedManifestHash,
                HashText(data))

\* C19: the only operation that changes a manifest is set_custom_field:
\* set_custom_field(k, v) makes custom_field(k) return v and leaves every
\* other custom field and every other field of the manifest unchanged, also
\* when the manifest had no custom-field map; files(), total_size(),
\* total_download_size(), custom_field() and to_vec() leave the manifest
\* unchanged.
C19_OnlySetCustomFieldChanges == [][CallerStepFrames /\ ParseStepFrames]_vars

\* A JSON manifest without a custom-field map of its own was stamped, got a
\* custom field from its caller, and was read by files(), by one of the
\* other readers and by to_vec().
C19_SetAndRead ==
    /\ Returned
    /\ ~HasMagic(data)
    /\ ~IsSome(Decoded(data, checks).custom_fields)
    /\ sets = 1
    /\ view # NotCalled
    /\ answer # NotCalled
    /\ encoded # NotCalled


(***************************************************************************)
(* The user data of a client: EpicGames::set_user_details (lib.rs 69-72)   *)
(* hands a UserData to UserData::update (account.rs 104-157).              *)
(***************************************************************************)
\* The most calls of update in a run.
MaxUpdates == 3

\* A UserData with the given fields present.
UserWith(present) ==
    [f \in UserFields |-> IF f \in DOMAIN present THEN Some(present[f]) ELSE None]

\* The arguments of update: nothing present; a login answer; a refreshed
\* token; an error answer; a display name; everything present.
UpdateArgs ==
    {UserData_new,
     UserWith([access_token |-> 1, expires_in |-> 2, token_type |-> 3,
               refresh_token |-> 4, account_id |-> 5]),
     UserWith([access_token |-> 6, expires_in |-> 2]),
     UserWith([refresh_token |-> 7, refresh_expires |-> 8, refresh_expires_at |-> 9]),
     UserWith([error_message |-> 10, error_code |-> 11]),
     UserWith([display_name |-> 12]),
     UserWith([internal_client |-> 0, client_service |-> 13, app |-> 14]),
     [f \in UserFields |-> Some(15)]}

InitUser ==
    /\ NewUser
    /\ checks \in BOOLEAN
    /\ NoManifest
    /\ NoBlob
    /\ OthersIdle

\* self.egs.user_data.update(user_details)
SetUserDetails ==
    /\ updates < MaxUpdates
    /\ \E new \in UpdateArgs :
          /\ user_data' = update(user_data, new)
          /\ arg' = Called(new)
    /\ before' = user_data
    /\ prev_arg' = arg
    /\ updates' = updates + 1
    /\ UNCHANGED <<manifestVars, blobVars, otherVars>>

NextUser == SetUserDetails

SpecUser == InitUser /\ [][NextUser]_vars

(***************************************************************************)
(* Claims about the user data (SpecUser).                                  *)
(***************************************************************************)
\* C20: update(new) overwrites exactly the fields that are present in new
\* and leaves every field that is absent in new at its previous value;
\* an update with nothing present changes nothing, and the same update
\* applied twice in a row gives what it gave the first time.
C20_UpdateOverwritesPresent ==
    arg # NotCalled =>
        /\ \A f \in UserFields :
              user_data[f] = IF IsSome(arg.out[f]) THEN arg.out[f] ELSE before[f]
        /\ arg.out = UserData_new => user_data = before
        /\ prev_arg = arg => user_data = before

\* The same update, with some fields present and some absent, was applied
\* twice in a row to user data that held other values in both kinds of
\* field.
C20_UpdatedTwice ==
    /\ updates = MaxUpdates
    /\ prev_arg = arg
    /\ \E f \in UserFields : IsSome(arg.out[f]) /\ IsSome(user_data[f])
    /\ \E f \in UserFields : ~IsSome(arg.out[f]) /\ IsSome(user_data[f])


(***************************************************************************)
(* The sections of a binary manifest: where each one is read, and which    *)
(* optional fields are read at which version (download_manifest.rs         *)
(* 356-677).                                                               *)
(***************************************************************************)
\* Manifests with every pair of section versions, with and without an MD5
\* per file.
GateVariants ==
    {v \in {[Plain EXCEPT !.dv = d, !.fmv = f, !.md5 = m, !.build = <<98>>] :
                d \in 0..2, f \in 0..2, m \in 0..1} :
        v.fmv >= 1 \/ v.md5 = 0}

\* Manifests whose metadata section announces more bytes than its fields
\* take: zero bytes follow the last field.
SlackVariants ==
    {[Plain EXCEPT !.slack = 4], [Plain EXCEPT !.slack = 9],
     [LinkedVariant EXCEPT !.slack = 9]}

\* An input with what it was built from.
Case(v, nch, nfi) ==
    [v |-> v, nch |-> nch, nfi |-> nfi, buf |-> WireManifest(v, nch, nfi)]

GateCases == {Case(v, 1, nfi) : v \in GateVariants, nfi \in 1..MaxFiles}
SlackCases == {Case(v, nch, nfi) : v \in SlackVariants, nch \in 0..1, nfi \in 0..1}
SectionInputs == {c.buf : c \in GateCases \cup SlackCases}

InitSections ==
    /\ data \in SectionInputs
    /\ checks \in BOOLEAN
    /\ pc = "start"
    /\ parsed = NotCalled
    /\ manifest = None
    /\ sets = 0
    /\ links = NotCalled
    /\ view = NotCalled
    /\ answer = NotCalled
    /\ encoded = NotCalled
    /\ reparsed = NotCalled
    /\ NoBlob
    /\ NewUser
    /\ OthersIdle

NextSections == Parse \/ Files

SpecSections == InitSections /\ [][NextSections]_vars

\* How from_vec walked the sections of a buffer: the cursor before each
\* section and after the last (starts), the size each section announces in
\* its first four bytes (sizes), and what was read of the optional fields
\* of the files.
Framing(buffer, chk) ==
    LET Walk(h, r) ==
            IF ~r.ok THEN Panic
            ELSE [ok |-> TRUE, starts |-> r.sections, extras |-> r.extras,
                  sizes |-> [k \in 1..4 |->
                      Count(SubSeq(h.payload, r.sections[k] + 1,
                                   r.sections[k] + 4))]]
        Read(h) ==
            IF ~h.ok THEN Panic
            ELSE IF ~h.magic THEN Panic
            ELSE IF ~h.accepted THEN Panic
            ELSE Walk(h, ReadSections(h.payload, h.position, h.header_size, chk))
    IN  Read(ReadHeader(buffer))

\* Every section was left at its announced end: its start plus its size.
Framed(f) == f.ok /\ \A k \in 1..4 : f.starts[k + 1] = f.starts[k] + f.sizes[k]

\* C21: each section of the payload is read starting at the offset the
\* section before it announces, its start plus its declared 32-bit size:
\* when the fields read from a section end before (or after) its announced
\* end, the reader continues at the announced end.
C21_SectionsReadAtAnnouncedEnd ==
    Returned /\ HasMagic(data) => Framed(Framing(data, checks))

\* parse returned a manifest for a buffer whose metadata section announces
\* nine bytes more than its fields take: the chunk section was read from
\* those nine bytes, every later section one section early, and the
\* SourceURL of the buffer's custom fields is not in the manifest.
C21_ReadFromInsideMetadata ==
    /\ Returned
    /\ \E c \in SlackCases :
          /\ data = c.buf
          /\ c.v.custom # <<>>
          /\ custom_field(manifest.v, KeySourceURL) = None
    /\ LET Early(f) == f.ok /\ f.starts[2] < f.starts[1] + f.sizes[1]
       IN  Early(Framing(data, checks))

\* What was read of a buffer built with the section versions of c: the
\* build version of the metadata at version 1, the uninstall path and
\* arguments at version 2; per file the MD5 mark (and the MD5 after a mark
\* that is not zero) and the MIME type at version 1, the SHA-256 at version
\* 2; and nothing else, so that every section ends where it announces.
Gated(c, m, f) ==
    /\ Framed(f)
    /\ m.build_version_string = IF c.v.dv >= 1 THEN c.v.build ELSE <<118>>
    /\ m.uninstall_action_path = IF c.v.dv >= 2 THEN Some(<<117>>) ELSE None
    /\ m.uninstall_action_args = IF c.v.dv >= 2 THEN Some(<<>>) ELSE None
    /\ f.extras.hash_md5 =
          IF c.v.fmv >= 1
          THEN [i \in 1..c.nfi |-> IF c.v.md5 # 0 THEN <<Zeros(16)>> ELSE <<>>]
          ELSE <<>>
    /\ f.extras.mime_type =
          IF c.v.fmv >= 1 THEN [i \in 1..c.nfi |-> Some(<<109>>)] ELSE <<>>
    /\ f.extras.hash_sha256 =
          IF c.v.fmv >= 2 THEN [i \in 1..c.nfi |-> Zeros(32)] ELSE <<>>

\* C22: the reader reads an optional field exactly when the data version of
\* its section reaches the field's gate: the build version of the metadata
\* at 1, the uninstall path and arguments at 2; in the file section at 1 a
\* 32-bit MD5 mark per file, 16 bytes after a mark that is not zero, and
\* then a MIME type per file, at 2 the 32 bytes of a SHA-256 per file; at
\* version 0 it consumes none of them.
C22_OptionalFieldsGated ==
    \A c \in GateCases :
        data = c.buf /\ parsed # NotCalled =>
            Returned /\ Gated(c, parsed.out.v.v, Framing(data, checks))

\* A manifest with metadata version 2 and file version 1 whose files carry
\* the MD5 mark zero was parsed: the uninstall path was read, and so were
\* the MIME types.
C22_MimeReadWithoutMd5 ==
    /\ Returned
    /\ \E c \in GateCases :
          data = c.buf /\ c.v.dv = 2 /\ c.v.fmv = 1 /\ c.v.md5 = 0 /\ c.nfi = 2
    /\ manifest.v.uninstall_action_path = Some(<<117>>)


(***************************************************************************)
(* The readers of utils.rs on a buffer of their own (utils.rs 41-108):     *)
(* a caller reads field after field with one cursor, or writes a string    *)
(* with write_fstring and reads it back.                                   *)
(***************************************************************************)
\* i32::from_le_bytes: the two's-complement value of four bytes.
I32Of(b4) ==
    b4[1] + 256 * b4[2] + 65536 * b4[3]
    + 16777216 * (IF b4[4] >= 128 THEN b4[4] - 256 ELSE b4[4])

\* read_le_signed
read_le_signed(buffer, position) ==
    IF position + 4 > Len(buffer) THEN Panic
    ELSE [ok |-> TRUE, pos |-> position + 4,
          v |-> I32Of(SubSeq(buffer, position + 1, position + 4))]

\* i64::from_le_bytes: sign and magnitude; the magnitude of a negative value
\* is the complement of the bytes plus one.
I64Of(b8) ==
    IF b8[8] >= 128
    THEN [neg |-> TRUE,
          mag |-> AddNum(Norm([i \in 1..8 |-> 255 - b8[i]]), <<1>>)]
    ELSE [neg |-> FALSE, mag |-> Norm(b8)]

\* read_le_64_signed
read_le_64_signed(buffer, position) ==
    IF position + 8 > Len(buffer) THEN Panic
    ELSE [ok |-> TRUE, pos |-> position + 8,
          v |-> I64Of(SubSeq(buffer, position + 1, position + 8))]

\* The buffers of the unit tests of utils.rs (145-197).
TestU32 == <<1, 2, 3, 4>>
TestI32 == <<237, 201, 255, 255>>
TestU64 == <<0, 0, 5, 3, 0, 1, 2, 3>>
TestI64 == <<237, 201, 255, 255, 255, 255, 255, 255>>
TestUtf8 == <<5, 0, 0, 0, 97, 98, 99, 100, 0>>
TestUtf16 == <<251, 255, 255, 255, 97, 0, 98, 0, 99, 0, 100, 0, 0, 0>>

\* The buffers handed to the readers: those of the unit tests; strings of
\* length 0, 1 and -1; a string that is not UTF-8 and one of two bytes that
\* is; a length that runs past the buffer; the most negative length; fields
\* in a row; bytes of 255; nothing.
ReaderBuffers ==
    {TestU32, TestI32, TestU64, TestI64, TestUtf8, TestUtf16,
     <<0, 0, 0, 0, 9, 9, 9, 9>>,
     <<1, 0, 0, 0, 0>>,
     <<255, 255, 255, 255, 0, 0>>,
     <<3, 0, 0, 0, 255, 97, 0>>,
     <<3, 0, 0, 0, 195, 169, 0>>,
     <<9, 0, 0, 0, 97>>,
     <<0, 0, 0, 128, 0, 0, 0, 0>>,
     <<253, 255, 255, 255, 97, 1, 98, 0, 0, 0, 7, 0, 0, 128>>,
     TestUtf8 \o TestUtf16 \o TestU64 \o TestI32,
     [i \in 1..12 |-> 255],
     <<>>}

\* The strings handed to write_fstring: the empty one, short ones, one
\* with a NUL, one of two-byte characters, and strings whose length + 1
\* takes two bytes.
WriterTexts ==
    {<<>>, <<97>>, <<97, 98, 99, 100>>, <<97, 0, 98>>, <<195, 169, 195, 169>>,
     [i \in 1..255 |-> 120], [i \in 1..256 |-> 121]}

InitReader ==
    /\ read_buffer \in ReaderBuffers
    /\ read_position \in 0..1
    /\ read_result = NotCalled
    /\ written = NotCalled
    /\ checks \in BOOLEAN
    /\ NoManifest
    /\ NoBlob
    /\ NewUser
    /\ NoSession
    /\ NoPages

\* The caller goes on after a read that returned.
CanRead == IF read_result = NotCalled THEN TRUE ELSE read_result.out.ok

\* The call fn at the cursor gave r: the cursor is moved when it returned.
Reading(fn, r) ==
    /\ CanRead
    /\ read_result' = [called |-> TRUE, fn |-> fn, at |-> read_position, out |-> r]
    /\ read_position' = IF r.ok THEN r.pos ELSE read_position
    /\ UNCHANGED <<read_buffer, written>>
    /\ UNCHANGED <<manifestVars, blobVars, userVars, sessionVars, pageVars>>

ReadLe == Reading("read_le", read_le(read_buffer, read_position))
ReadLeSigned == Reading("read_le_signed", read_le_signed(read_buffer, read_position))
ReadLe64 == Reading("read_le_64", read_le_64(read_buffer, read_position))
ReadLe64Signed ==
    Reading("read_le_64_signed", read_le_64_signed(read_buffer, read_position))
ReadFstring == Reading("read_fstring", read_fstring(read_buffer, read_position))

\* write_fstring(string): the caller then reads the bytes from their start.
WriteFstring ==
    /\ read_buffer = <<>>
    /\ written = NotCalled
    /\ read_result = NotCalled
    /\ \E string \in WriterTexts :
          /\ written' = Called(string)
          /\ read_buffer' = write_fstring(string)
    /\ read_position' = 0
    /\ UNCHANGED read_result
    /\ UNCHANGED <<manifestVars, blobVars, userVars, sessionVars, pageVars>>

NextReader ==
    \/ ReadLe
    \/ ReadLeSigned
    \/ ReadLe64
    \/ ReadLe64Signed
    \/ ReadFstring
    \/ WriteFstring

SpecReader == InitReader /\ [][NextReader]_vars

(***************************************************************************)
(* Claims about the readers (SpecReader).                                  *)
(***************************************************************************)
\* The last call was fn.
LastRead(fn) == read_result # NotCalled /\ read_result.fn = fn

\* What read_fstring gave (r) for the length L read at zero-based offset p
\* of buffer b, when the bytes the length announces are in the buffer.
FstringRead(b, p, L, r) ==
    /\ L = 0 => r = [ok |-> TRUE, pos |-> p + 4, v |-> None]
    /\ L > 0 /\ L <= Len(b) /\ p + 4 + L <= Len(b) =>
          /\ r.ok
          /\ r.pos = p + 4 + L
          /\ ValidUtf8(SubSeq(b, p + 5, p + 3 + L)) =>
                r.v = Some(SubSeq(b, p + 5, p + 3 + L))
    /\ L < 0 /\ L + Len(b) >= 0 /\ p + 4 + 2 * (-L) <= Len(b) =>
          /\ r.ok
          /\ r.pos = p + 4 + 2 * (-L)
          /\ (\A i \in 1..(-L - 1) : b[p + 4 + 2 * i] = 0 /\ b[p + 3 + 2 * i] < 128) =>
                r.v = Some([i \in 1..(-L - 1) |-> b[p + 3 + 2 * i]])

\* C23: read_fstring reads a signed little-endian 32-bit length L at the
\* cursor. For L > 0 it returns the first L - 1 following bytes as UTF-8
\* and moves the cursor by 4 + L; for L < 0 it returns the first |L| - 1
\* 16-bit little-endian units as UTF-16 and moves the cursor by 4 + 2|L|;
\* for L = 0 it returns the absent value and moves the cursor by 4.
C23_ReadFstring ==
    LastRead("read_fstring") /\ read_result.at + 4 <= Len(read_buffer) =>
        /\ FstringRead(read_buffer, read_result.at,
                       I32Of(SubSeq(read_buffer, read_result.at + 1,
                                    read_result.at + 4)),
                       read_result.out)
        /\ read_result.out.ok => read_position = read_result.out.pos

\* The caller read the UTF-16 string "abcd" of the unit test at offset 9,
\* behind the UTF-8 string of the unit test: the cursor went from 9 to 23.
C23_StringsInARow ==
    /\ read_buffer = TestUtf8 \o TestUtf16 \o TestU64 \o TestI32
    /\ LastRead("read_fstring")
    /\ read_result.at = 9
    /\ read_result.out.v = Some(<<97, 98, 99, 100>>)
    /\ read_position = 23

\* The bytes write_fstring gives for a string of n bytes s.
FstringBytes(s, n) ==
    IF n = 0 THEN <<0, 0, 0, 0>>
    ELSE <<(n + 1) % 256, ((n + 1) \div 256) % 256, ((n + 1) \div 65536) % 256,
           (n + 1) \div 16777216>> \o s \o <<0>>

\* C24: write_fstring(s) gives four zero bytes for the empty string and
\* otherwise the little-endian 32-bit value len(s) + 1, the bytes of s and
\* one zero byte; read_fstring applied to these bytes from cursor 0 returns
\* s (absent for the empty string) and leaves the cursor at their end.
C24_WriteFstringRoundTrip ==
    written # NotCalled =>
        /\ read_buffer = FstringBytes(written.out, Len(written.out))
        /\ LastRead("read_fstring") /\ read_result.at = 0 =>
              /\ read_result.out.ok
              /\ read_result.out.v =
                    IF written.out = <<>> THEN None ELSE Some(written.out)
              /\ read_result.out.pos = Len(read_buffer)
              /\ read_position = Len(read_buffer)

\* A string of 255 bytes, whose length + 1 is written as 0, 1, 0, 0, was
\* written and read back.
C24_LongStringReadBack ==
    /\ written # NotCalled
    /\ Len(written.out) = 255
    /\ SubSeq(read_buffer, 1, 4) = <<0, 1, 0, 0>>
    /\ LastRead("read_fstring")
    /\ read_result.at = 0
    /\ read_position = 260

RECURSIVE RemTen(_, _)
\* The number of the bytes of b from the i-th on, modulo ten.
RemTen(b, i) == IF i > Len(b) THEN 0 ELSE (RemTen(b, i + 1) * 256 + b[i]) % 10

\* A number divided by ten.
DivTen(num) ==
    Norm([i \in 1..Len(num) |-> (RemTen(num, i + 1) * 256 + num[i]) \div 10])

RECURSIVE DecimalDigits(_)
DecimalDigits(num) ==
    IF num = <<>> THEN <<>>
    ELSE DecimalDigits(DivTen(num)) \o <<ChZero + RemTen(num, 1)>>

\* A number in decimal, as the unit tests write it.
Decimal(num) == IF num = <<>> THEN <<ChZero>> ELSE DecimalDigits(num)

\* Text of decimal digits.
DigitText(ds) == [i \in 1..Len(ds) |-> ChZero + ds[i]]

\* v is the value whose w-byte two's-complement representation is b: byte
\* k of it is floor(v / 256^k) mod 256.
IsTwosComplement(v, b, w) ==
    LET Pow(k) == IF k = 0 THEN 1 ELSE IF k = 1 THEN 256
                  ELSE IF k = 2 THEN 65536 ELSE 16777216
    IN  \A k \in 0..(w - 1) : (v \div Pow(k)) % 256 = b[k + 1]

\* The four primitive readers on the w bytes b at offset p.
ReadersRight(b, p, r) ==
    /\ LastRead("read_le") /\ p + 4 <= Len(b) =>
          /\ r.ok /\ r.pos = p + 4
          /\ b[p + 4] < 128 =>
                Decimal(Norm(r.v)) =
                    DecDigits(b[p + 1] + 256 * b[p + 2] + 65536 * b[p + 3]
                              + 16777216 * b[p + 4])
          /\ b = TestU32 /\ p = 0 =>
                Decimal(Norm(r.v)) = DigitText(<<6, 7, 3, 0, 5, 9, 8, 5>>)
    /\ LastRead("read_le_signed") /\ p + 4 <= Len(b) =>
          /\ r.ok /\ r.pos = p + 4
          /\ IsTwosComplement(r.v, SubSeq(b, p + 1, p + 4), 4)
          /\ r.v < 0 <=> b[p + 4] >= 128
          /\ b = TestI32 /\ p = 0 => r.v = -13843
    /\ LastRead("read_le_64") /\ p + 8 <= Len(b) =>
          /\ r.ok /\ r.pos = p + 8
          /\ Norm(SubSeq(b, p + 5, p + 8)) = <<>> /\ b[p + 4] < 128 =>
                Decimal(Norm(r.v)) =
                    DecDigits(b[p + 1] + 256 * b[p + 2] + 65536 * b[p + 3]
                              + 16777216 * b[p + 4])
          /\ b = TestU64 /\ p = 0 =>
                Decimal(Norm(r.v)) =
                    DigitText(<<2, 1, 6, 7, 3, 6, 8, 3, 1, 6, 2, 9, 4, 9, 2, 2, 2, 4>>)
    /\ LastRead("read_le_64_signed") /\ p + 8 <= Len(b) =>
          /\ r.ok /\ r.pos = p + 8
          /\ r.v.neg <=> b[p + 8] >= 128
          /\ ~r.v.neg => r.v.mag = Norm(SubSeq(b, p + 1, p + 8))
          /\ r.v.neg =>
                AddNum(r.v.mag, Norm(SubSeq(b, p + 1, p + 8))) = Zeros(8) \o <<1>>
          /\ b = TestI64 /\ p = 0 =>
                r.v.neg /\ Decimal(r.v.mag) = DigitText(<<1, 3, 8, 4, 3>>)

\* C25: read_le, read_le_signed, read_le_64 and read_le_64_signed return
\* the little-endian value of the 4, 4, 8 and 8 bytes at the cursor, the
\* signed ones as two's complement, and move the cursor by that many bytes.
C25_ReadersLittleEndian ==
    read_result # NotCalled =>
        /\ ReadersRight(read_buffer, read_result.at, read_result.out)
        /\ read_result.out.ok /\ read_result.fn # "read_fstring" =>
              read_position = read_result.out.pos

\* After two strings the caller read the 64-bit value of the unit test at
\* offset 23 and then a negative 32-bit value at offset 31.
C25_FieldsInARow ==
    /\ read_buffer = TestUtf8 \o TestUtf16 \o TestU64 \o TestI32
    /\ LastRead("read_le_signed")
    /\ read_result.at = 31
    /\ read_result.out.v = -13843
    /\ read_position = 35


(***************************************************************************)
(* Claims about the chunk table to_vec writes (SpecRoundTrip).             *)
(***************************************************************************)
\* The chunk table of the bytes to_vec gave, as from_vec reads it: the
\* chunk section behind the metadata of the inflated payload.
WrittenChunks(buf) ==
    LET After(me, p) == IF ~me.ok THEN Panic ELSE ReadChunks(p, me.pos)
        Table(p) == IF ~p.ok THEN Panic ELSE After(ReadMeta(p.v, 0), p.v)
    IN  Table(ZlibDecode(Body(buf)))

\* In the table t the hash, the SHA-1, the group and the file size at the
\* index of GUID g are those manifest m holds for g (those of them that m
\* holds and that fit the column).
RowIsOf(m, t, g) ==
    /\ ToLower(g) \in DOMAIN t.chunk_hash_list
    /\ FitsIn(m.chunk_hash_list[g], 8) =>
          t.chunk_hash_list[ToLower(g)] = m.chunk_hash_list[g]
    /\ IsSome(m.chunk_sha_list) =>
          (g \in DOMAIN m.chunk_sha_list.v /\ Len(m.chunk_sha_list.v[g]) = 40 =>
              t.chunk_sha_list.v[ToLower(g)] = ToLower(m.chunk_sha_list.v[g]))
    /\ g \in DOMAIN m.data_group_list /\ FitsIn(m.data_group_list[g], 1) =>
          t.data_group_list[ToLower(g)] = m.data_group_list[g]
    /\ g \in DOMAIN m.chunk_filesize_list /\ FitsIn(m.chunk_filesize_list[g], 4) =>
          t.chunk_filesize_list[ToLower(g)] = m.chunk_filesize_list[g]

\* C26: in the bytes to_vec gives, the columns of the chunk section are
\* aligned: the i-th hash, the i-th SHA-1, the i-th group and the i-th file
\* size all belong to the chunk whose GUID is written at index i.
C26_ChunkColumnsAligned ==
    LET Aligned(m, t) ==
            t.ok /\ \A g \in DOMAIN m.chunk_hash_list : RowIsOf(m, t.v, g)
    IN  Written => Aligned(manifest.v, WrittenChunks(encoded.out.v))

\* to_vec wrote a binary manifest with two chunks so that the SHA-1 in the
\* row of one chunk is the SHA-1 of the other, while the hash in that row
\* is its own.
C26_ShaOfTheOtherChunk ==
    /\ Written
    /\ HasMagic(data)
    /\ LET Crossed(m, t) ==
               /\ t.ok
               /\ \E g, h \in DOMAIN m.chunk_hash_list :
                     /\ g # h
                     /\ m.chunk_sha_list.v[g] # m.chunk_sha_list.v[h]
                     /\ t.v.chunk_hash_list[g] = m.chunk_hash_list[g]
                     /\ t.v.chunk_sha_list.v[g] = m.chunk_sha_list.v[h]
       IN  Crossed(manifest.v, WrittenChunks(encoded.out.v))


(***************************************************************************)
(* Writing the manifests parse returns for odd documents: to_vec and       *)
(* parse of its bytes, as in SpecRoundTrip.                                *)
(***************************************************************************)
WriteInputs ==
    {JsonText(ShalessDoc), JsonText(NamedDoc), JsonText(JsonDoc(PlainDoc, 2, 1)),
     WireManifest(Plain, 0, 0), WireManifest(Plain, 2, 1),
     WireManifest(LinkedVariant, 1, 1)}

InitWrite ==
    /\ data \in WriteInputs
    /\ checks \in BOOLEAN
    /\ pc = "start"
    /\ parsed = NotCalled
    /\ manifest = None
    /\ sets = 0
    /\ links = NotCalled
    /\ view = NotCalled
    /\ answer = NotCalled
    /\ encoded = NotCalled
    /\ reparsed = NotCalled
    /\ NoBlob
    /\ NewUser
    /\ OthersIdle

NextWrite == Parse \/ ToVec \/ Reparse

SpecWrite == InitWrite /\ [][NextWrite]_vars

\* C27: to_vec returns, without aborting, for every manifest parse can
\* return, also one without a chunk SHA map, one without custom fields and
\* one whose GUIDs are not 32 hex characters; and from_vec accepts the
\* bytes it returns.
C27_ToVecNeverAborts ==
    /\ encoded # NotCalled => encoded.out.ok
    /\ reparsed # NotCalled => reparsed.out.ok /\ IsSome(reparsed.out.v)

\* parse returned the manifest of a JSON document without ChunkShaList, and
\* to_vec panicked on it.
C27_AbortsWithoutShaMap ==
    /\ Returned
    /\ ~IsSome(manifest.v.chunk_sha_list)
    /\ encoded # NotCalled
    /\ ~encoded.out.ok

(***************************************************************************)
(* Sessions with the account service (login.rs, lib.rs 53-194). Times are  *)
(* whole seconds, as `td.num_seconds()` reads them. A call to the service  *)
(* is one step: the request, the answer and what the handler does with it. *)
(***************************************************************************)

\* `td.num_seconds() > 600` (lib.rs 57, 158, 178).
SessionMargin == 600

\* The last second of the clock.
MaxNow == 1

\* `if let Some(exp) = e { (exp - now).num_seconds() > 600 }`
StillValid(e, t) == IF IsSome(e) THEN e.v - t > SessionMargin ELSE FALSE

\* EpicGames::is_logged_in
is_logged_in(ud, t) == StillValid(ud.expires_at, t)

\* Result<bool, EpicAPIError>: Ok(true), Err(Server), Err(Unknown) and
\* Err(APIError(m)).
ResultOk == [err |-> FALSE, v |-> TRUE]
ResultErr(e) == [err |-> TRUE, e |-> e]
APIError(m) == [err |-> TRUE, e |-> "APIError", m |-> m]

\* What a call to the service leaves: its Result, the user data after it and
\* the arguments of the update calls it made.
Answered(res, ud, applied) ==
    [ok |-> TRUE, res |-> res, user_data |-> ud, applied |-> applied]

\* What the service answers at time t: nothing (the request fails in
\* transport), status 500, a body that is not a UserData, a token (the
\* session lasts one second longer than the margin, the refresh token two),
\* the answer of /oauth/verify, and an error body.
Responses(t) ==
    {[kind |-> "transport"], [kind |-> "status500"], [kind |-> "garbage"],
     [kind |-> "json",
      new |-> UserWith([access_token |-> 1, expires_at |-> t + SessionMargin + 1,
                        refresh_token |-> 4,
                        refresh_expires_at |-> t + SessionMargin + 2])],
     [kind |-> "json", new |-> UserWith([account_id |-> 5])],
     [kind |-> "json", new |-> UserWith([error_message |-> 10, error_code |-> 11])]}

\* EpicAPI::handle_login_response
handle_login_response(ud, response) ==
    IF response.kind = "status500" THEN Answered(ResultErr("Server"), ud, <<>>)
    ELSE IF response.kind = "garbage" THEN Answered(ResultErr("Unknown"), ud, <<>>)
    ELSE LET Checked(after) ==
                 Answered(IF IsSome(after.error_message)
                          THEN APIError(after.error_message.v)
                          ELSE ResultOk,
                          after, <<response.new>>)
         IN  Checked(update(ud, response.new))

\* EpicAPI::start_session: the refresh grant unwraps the stored refresh token
\* before anything is sent.
start_session(ud, exchange_token, authorization_code, response) ==
    IF exchange_token = None /\ authorization_code = None /\ ~IsSome(ud.refresh_token)
    THEN Panic
    ELSE IF response.kind = "transport"
    THEN Answered(ResultErr("Unknown"), ud, <<>>)
    ELSE handle_login_response(ud, response)

\* EpicAPI::resume_session
resume_session(ud, response) ==
    IF response.kind = "transport"
    THEN Answered(ResultErr("Unknown"), ud, <<>>)
    ELSE handle_login_response(ud, response)

\* EpicGames::login at time t, the service answering the verify request with
\* `verify` and the token request with `token`: what it returns, the requests
\* it sent, the Result of the resume (None when not attempted), the user data
\* `mid` at the second test and the user data it leaves.
login(ud, t, verify, token) ==
    LET Refresh(mid, sent, resumed, applied) ==
            IF StillValid(mid.refresh_expires_at, t)
            THEN LET Done(s) ==
                         IF s.ok
                         THEN [ok |-> TRUE, ret |-> s.res = ResultOk,
                               sent |-> Append(sent, "refresh"),
                               resumed |-> resumed, mid |-> mid,
                               user_data |-> s.user_data,
                               applied |-> applied \o s.applied]
                         ELSE [ok |-> FALSE, ret |-> FALSE, sent |-> sent,
                               resumed |-> resumed, mid |-> mid,
                               user_data |-> mid, applied |-> applied]
                 IN  Done(start_session(mid, None, None, token))
            ELSE [ok |-> TRUE, ret |-> FALSE, sent |-> sent, resumed |-> resumed,
                  mid |-> mid, user_data |-> mid, applied |-> applied]
        Resume(s) ==
            IF s.res = ResultOk
            THEN [ok |-> TRUE, ret |-> TRUE, sent |-> <<"resume">>,
                  resumed |-> Some(s.res), mid |-> s.user_data,
                  user_data |-> s.user_data, applied |-> s.applied]
            ELSE Refresh(s.user_data, <<"resume">>, Some(s.res), s.applied)
    IN  IF StillValid(ud.expires_at, t)
        THEN Resume(resume_session(ud, verify))
        ELSE Refresh(ud, <<>>, None, <<>>)

\* The details a caller restores with set_user_details: a session and a
\* refresh token still good, both at the margin, the session alone, and a
\* refresh expiry without its token.
StoredDetails ==
    {UserWith([access_token |-> 1, expires_at |-> SessionMargin + 1,
               refresh_token |-> 4, refresh_expires_at |-> SessionMargin + 2]),
     UserWith([access_token |-> 1, expires_at |-> SessionMargin,
               refresh_token |-> 4, refresh_expires_at |-> SessionMargin]),
     UserWith([access_token |-> 1, expires_at |-> SessionMargin + 2]),
     UserWith([access_token |-> 1, refresh_expires_at |-> SessionMargin + 2])}

InitLogin ==
    /\ NewUser
    /\ NoSession
    /\ checks = FALSE
    /\ NoManifest
    /\ NoBlob
    /\ NoReader
    /\ NoPages

\* The process is running: no call has aborted it.
Alive == IF call.called THEN call.out.out.ok ELSE TRUE

\* The update calls of a step, as the variables of UserData::update see them.
Applying(o) ==
    /\ user_data' = o.user_data
    /\ updates' = updates + Len(o.applied)
    /\ arg' = IF o.applied = <<>> THEN arg ELSE Called(o.applied[Len(o.applied)])
    /\ prev_arg' = IF Len(o.applied) = 0 THEN prev_arg
                   ELSE IF Len(o.applied) = 1 THEN arg
                   ELSE Called(o.applied[1])
    /\ before' = IF Len(o.applied) = 0 THEN before
                 ELSE IF Len(o.applied) = 1 THEN user_data
                 ELSE update(user_data, o.applied[1])

\* An answer that decodes as a UserData and carries no errorMessage.
GoodAnswer(r) == IF r.kind = "json" THEN ~IsSome(r.new.error_message) ELSE FALSE

\* An answer that carries an errorMessage.
ErrorAnswer(r) == IF r.kind = "json" THEN IsSome(r.new.error_message) ELSE FALSE

\* What is kept of the call before the last: which call it was, whether its
\* answer carried an errorMessage, and its Result.
Summary(c) ==
    IF c.called /\ c.out.op \in {"start_session", "resume_session"}
    THEN Called([op |-> c.out.op, refused |-> ErrorAnswer(c.out.answers[1]),
                 res |-> c.out.out.res])
    ELSE IF c.called THEN Called([op |-> c.out.op]) ELSE NotCalled

\* The answers to the requests login sent.
Heard(o, verify, token) ==
    SelectSeq(<<[to |-> "resume", r |-> verify], [to |-> "refresh", r |-> token]>>,
              LAMBDA a : \E i \in 1..Len(o.sent) : o.sent[i] = a.to)

\* A call `op` made now, the service answering with `answers`, ends as `o`.
Calling(op, answers, o) ==
    /\ call' = Called([op |-> op, at |-> now, held |-> user_data,
                       answers |-> answers, out |-> o])
    /\ prev_call' = Summary(call)
    /\ Applying(o)
    /\ now' = now
    /\ UNCHANGED <<manifestVars, blobVars, readerVars, pageVars>>

\* EpicGames::set_user_details with details kept from an earlier run.
RestoreDetails ==
    /\ Alive
    /\ updates < MaxUpdates
    /\ \E d \in StoredDetails :
          /\ user_data' = update(user_data, d)
          /\ arg' = Called(d)
    /\ before' = user_data
    /\ prev_arg' = arg
    /\ updates' = updates + 1
    /\ UNCHANGED <<manifestVars, blobVars, readerVars, sessionVars, pageVars>>

\* EpicGames::auth_code: start_session with a code.
StartSession ==
    /\ Alive
    /\ updates < MaxUpdates
    /\ \E r \in Responses(now) :
          Calling("start_session", <<r>>, start_session(user_data, None, Some(1), r))

\* EpicAPI::resume_session
ResumeSession ==
    /\ Alive
    /\ updates < MaxUpdates
    /\ \E r \in Responses(now) :
          Calling("resume_session", <<r>>, resume_session(user_data, r))

\* EpicGames::login
Login ==
    /\ Alive
    /\ updates < MaxUpdates
    /\ \E verify \in Responses(now), token \in Responses(now) :
          LET Made(o) == Calling("login", Heard(o, verify, token), o)
          IN  Made(login(user_data, now, verify, token))

\* EpicGames::is_logged_in
IsLoggedIn ==
    /\ Alive
    /\ Calling("is_logged_in", <<>>,
               [ok |-> TRUE, ret |-> is_logged_in(user_data, now),
                user_data |-> user_data, applied |-> <<>>])

\* A second passes.
Tick ==
    /\ Alive
    /\ now < MaxNow
    /\ now' = now + 1
    /\ UNCHANGED <<manifestVars, blobVars, userVars, readerVars, call, prev_call,
                   pageVars>>

NextLogin ==
    \/ RestoreDetails
    \/ StartSession
    \/ ResumeSession
    \/ Login
    \/ IsLoggedIn
    \/ Tick

SpecLogin == InitLogin /\ [][NextLogin]_vars

\* The last call was `op` and it returned or aborted.
LastCall(op) == IF call.called THEN call.out.op = op ELSE FALSE

\* C28: whatever the earlier attempts on the session object were, an answer
\* without errorMessage makes start_session and resume_session return Ok(true).
C28_LoginDependsOnItsAnswer ==
    LastCall("start_session") \/ LastCall("resume_session")
        => (GoodAnswer(call.out.answers[1]) => call.out.out.res = ResultOk)

\* start_session returned an API error on an answer with an errorMessage, and
\* the next attempt, answered without errorMessage, returns the same API error.
C28_StaleErrorMessage ==
    /\ prev_call.called
    /\ LastCall("start_session")
    /\ prev_call.out.op = "start_session"
    /\ prev_call.out.refused
    /\ prev_call.out.res = APIError(10)
    /\ GoodAnswer(call.out.answers[1])
    /\ call.out.out.res = APIError(10)


\* Whether login sent the request `q`.
Sent(o, q) == \E i \in 1..Len(o.sent) : o.sent[i] = q

\* What C29 says of a login() call c, but for its returning: a resume request
\* only with expires_at beyond the margin; a refresh request only with
\* refresh_expires_at beyond the margin, the resume not attempted or ended in
\* an error, and a stored refresh token; with neither expiry beyond the
\* margin, false and no request.
LoginRequests(c) ==
    /\ Sent(c.out, "resume") => IsSome(c.held.expires_at)
                                /\ c.held.expires_at.v - c.at > SessionMargin
    /\ Sent(c.out, "refresh") =>
          /\ IsSome(c.out.mid.refresh_expires_at)
          /\ c.out.mid.refresh_expires_at.v - c.at > SessionMargin
          /\ IF IsSome(c.out.resumed) THEN c.out.resumed.v.err ELSE ~Sent(c.out, "resume")
          /\ IsSome(c.out.mid.refresh_token)
    /\ ~StillValid(c.held.expires_at, c.at) /\ ~StillValid(c.held.refresh_expires_at, c.at)
          => ~c.out.ret /\ c.out.sent = <<>>

MaxPages == 3

\* How a page request fails: `send()` gives Err, the status is not 200, or
\* the body does not decode.
Failures == {"transport", "status", "body"}

Servers ==
    UNION {[pages : {n}, fails : [1..n -> Failures \cup {"none"}]] : n \in 1..MaxPages}

\* The answer of service s to the request with cursor c (None: the first page).
PageAnswer(s, c) ==
    LET Of(p) == IF s.fails[p] # "none" THEN [kind |-> s.fails[p]]
                 ELSE [kind |-> "ok", page |-> p,
                       next |-> IF p < s.pages THEN Some(p + 1) ELSE None]
    IN  Of(IF c = None THEN 1 ELSE c.v)

\* One pass of the loop of EpicAPI::library_items: a page is appended and its
\* next cursor kept, the loop breaking when there is none; a failure is only
\* logged; then `if cursor.is_none() { break; }`.
library_items(c, recs, a) ==
    IF a.kind = "ok"
    THEN [cursor |-> IF a.next = None THEN c ELSE a.next,
          records |-> Append(recs, a.page), break |-> a.next = None]
    ELSE [cursor |-> c, records |-> recs, break |-> c = None]

\* One pass of the loop of EpicAPI::fab_library_items: a page is appended and
\* its next cursor kept; a transport error and an undecodable body reset the
\* cursor; another status is only logged; then
\* `if library.cursors.next.is_none() { break; }`.
fab_library_items(c, recs, a) ==
    LET Pass(next) ==
            [cursor |-> next,
             records |-> IF a.kind = "ok" THEN Append(recs, a.page) ELSE recs,
             break |-> next = None]
    IN  Pass(IF a.kind = "ok" THEN a.next ELSE IF a.kind = "status" THEN c ELSE None)

InitPages ==
    /\ api \in {"egs", "fab"}
    /\ server \in Servers
    /\ cursor = None
    /\ records = <<>>
    /\ request = NotCalled
    /\ returned = FALSE
    /\ checks = FALSE
    /\ NoManifest
    /\ NoBlob
    /\ NewUser
    /\ NoReader
    /\ NoSession

\* The cursors of the requests that failed so far.
FailedCursors == IF request.called THEN request.out.failed ELSE {}

\* A pass of the running call: the request with the cursor held, its answer,
\* and what the pass `p` makes of it.
Requesting(a, p) ==
    /\ request' = Called([cursor |-> cursor, kind |-> a.kind,
                          again |-> cursor \in FailedCursors,
                          failed |-> IF a.kind = "ok" THEN FailedCursors
                                     ELSE FailedCursors \cup {cursor}])
    /\ cursor' = p.cursor
    /\ records' = p.records
    /\ returned' = p.break
    /\ UNCHANGED <<api, server, manifestVars, blobVars, userVars, readerVars,
                   sessionVars>>

\* EpicAPI::library_items, one pass of its loop.
LibraryItems ==
    /\ api = "egs"
    /\ ~returned
    /\ Requesting(PageAnswer(server, cursor),
                  library_items(cursor, records, PageAnswer(server, cursor)))

\* EpicAPI::fab_library_items, one pass of its loop.
FabLibraryItems ==
    /\ api = "fab"
    /\ ~returned
    /\ Requesting(PageAnswer(server, cursor),
                  fab_library_items(cursor, records, PageAnswer(server, cursor)))

NextPages == LibraryItems \/ FabLibraryItems

SpecPages == InitPages /\ [][NextPages]_vars

\* The call is an awaited future and every request ends, with an answer or
\* with an error of the client: a pass that can be taken is taken.
SpecPagesFair == SpecPages /\ WF_vars(NextPages)

\* C30: the library call returns after finitely many requests, whatever page
\* requests fail, and it never requests a cursor again whose request failed.
C30_PaginationTerminates ==
    /\ <>returned
    /\ [](request.called => ~request.out.again)

\* A request after the first page failed and the call asks for the same
\* cursor again, and goes on.
C30_FailedCursorRequestedAgain ==
    /\ request.called
    /\ request.out.again
    /\ request.out.cursor # None
    /\ request.out.cursor = cursor
    /\ ~returned

====
